---------------------------- MODULE Spec2Model ----------------------------
(***************************************************************************)
(* A model of libbmpread (src/bmpread.c): the checked size arithmetic, the *)
(* little-endian readers, the header/info parser, Validate, the six        *)
(* scan-line decoders, Decode, FreeContext, bmpread and bmpread_free.      *)
(*                                                                         *)
(* Integer types.  int32_t values are TLA+ integers in                     *)
(* INT32_MIN..INT32_MAX.  uint32_t values are sets of bit positions        *)
(* (a subset of 0..31; bit b set means 2^b), so that every 32-bit value is *)
(* representable and the bit operations of the code are set operations.    *)
(* size_t is an unsigned integer of SizeBits bits, reduced modulo          *)
(* 2^SizeBits wherever the code computes with it.                          *)
(***************************************************************************)
EXTENDS Integers, Sequences, FiniteSets, TLC

VARIABLES
    pc,       \* where the caller or the running bmpread call is
    args,     \* the arguments of the running bmpread call
    ctx,      \* its read_context
    success,  \* its local `success`
    note,     \* the return statement Validate or Decode took, the rows decoded
    stream,   \* the FILE fopen returned: whether it is open, its position
    heap,     \* the blocks malloc has returned, in order
    bmp,      \* the caller's bmpread_t
    calls,    \* how many bmpread calls the caller has made
    probe     \* a function under test: its name, argument and result

vars == <<pc, args, ctx, success, note, stream, heap, bmp, calls, probe>>

(***************************************************************************)
(* Platform widths and limits.                                             *)
(***************************************************************************)

\* Width of size_t in bits: the 16-bit platform bmpread.c caters for
\* (CanMakeSizeT), the smallest the C standard allows.
SizeBits == 16

\* 2^n for n in 0..30, tabulated.
RECURSIVE Pow2Rec(_)
Pow2Rec(n) == IF n = 0 THEN 1 ELSE 2 * Pow2Rec(n - 1)

Pow2Table == [n \in 0..30 |-> Pow2Rec(n)]

Pow2(n) == Pow2Table[n]

SIZE_MAX == Pow2(SizeBits) - 1

INT32_MAX == 2147483647

INT32_MIN == -INT32_MAX - 1

\* long is 32 bits wide: the width at which CanMakeLong can fail.
LONG_MAX == INT32_MAX

NULL == 0

(***************************************************************************)
(* uint32_t as a set of bit positions.                                     *)
(***************************************************************************)

BitPositions == 0..31

\* The bits of a natural number n < 2^31.
BitsOfNat(n) == {b \in 0..30 : (n \div Pow2(b)) % 2 = 1}

\* The conversion int32_t -> uint32_t of C (value modulo 2^32): a negative n
\* is 2^31 + (n + 2^31), that is bit 31 plus the bits of n + 2^31.
ToUint32(n) ==
    IF n >= 0 THEN BitsOfNat(n)
    ELSE BitsOfNat((n + INT32_MAX) + 1) \cup {31}

RECURSIVE SumPow2(_)
SumPow2(s) ==
    IF s = {} THEN 0
    ELSE CHOOSE n \in {Pow2(b) + SumPow2(s \ {b}) :
                          b \in {CHOOSE x \in s : TRUE}} : TRUE

\* The numeric value of a uint32_t below 2^31.
U32Value(x) == SumPow2(x)

\* x > LONG_MAX, x a uint32_t.
U32ExceedsLong(x) == 31 \in x

\* x >> n
ShiftRight(x, n) == {b - n : b \in {c \in x : c >= n}}

\* x << n, truncated to 32 bits
ShiftLeft(x, n) == {b + n : b \in {c \in x : c + n <= 31}}

(***************************************************************************)
(* Checked arithmetic (bmpread.c 59-120).                                  *)
(***************************************************************************)

\* size_t arithmetic wraps modulo 2^SizeBits.
WrapSize(n) == n % (SIZE_MAX + 1)

\* (a * b) modulo 2^SizeBits for size_t a, b, computed without leaving the
\* range of 32-bit integers.
WrapMul(a, b) ==
    WrapSize(WrapSize((a \div 256) * b) * 256 + (a % 256) * b)

CanAdd(a, b) == a <= SIZE_MAX - b

CanMultiply(a, b) == a <= SIZE_MAX \div b

\* x is an integer holding a value of a 32-bit type.
CanMakeSizeT(x) == ~(INT32_MAX > SIZE_MAX /\ x > SIZE_MAX)

CanMakeLong(x) == ~U32ExceedsLong(x)

CanNegate(x) == x # INT32_MIN

(***************************************************************************)
(* IsPowerOf2 (bmpread.c 427-439).                                         *)
(***************************************************************************)

\* IsPowerOf2 without the test of the remaining bits.
RECURSIVE IsPowerOf2AnyBits(_)
IsPowerOf2AnyBits(x) ==
    IF x = {} THEN FALSE
    ELSE IF 0 \in x THEN TRUE
         ELSE IsPowerOf2AnyBits(ShiftRight(x, 1))

RECURSIVE IsPowerOf2(_)
IsPowerOf2(x) ==
    IF x = {} THEN FALSE
    ELSE IF 0 \in x THEN (x \ {0}) = {}
         ELSE IsPowerOf2(ShiftRight(x, 1))

(***************************************************************************)
(* GetLineLength (bmpread.c 446-463).                                      *)
(***************************************************************************)

\* GetLineLength without the CanMultiply test.
GetLineLengthUnchecked(width, bpp) ==
    LET bits     == WrapMul(width, bpp)
        pad_bits == (32 - (bits % 32)) % 32
    IN  IF ~CanAdd(bits, pad_bits) THEN 0
        ELSE (bits + pad_bits) \div 8

GetLineLength(width, bpp) ==
    LET bits     == WrapMul(width, bpp)
        pad_bits == (32 - (bits % 32)) % 32
    IN  IF ~CanMultiply(width, bpp) \/ ~CanAdd(bits, pad_bits) THEN 0
        ELSE (bits + pad_bits) \div 8

(***************************************************************************)
(* The bitmap file: a readable, seekable stream of bytes.  A file is a     *)
(* record of what its bytes encode; FileByte gives the byte at an offset   *)
(* from the layout of bmp_header (bmpread.c 197-204), bmp_info (234-249)   *)
(* and bmp_color (313-320): a 14-byte header, the 40 fixed bytes of the    *)
(* info block, the channel masks, filler up to the palette, the palette    *)
(* and the pixel data.  A file shorter than its layout is truncated.       *)
(***************************************************************************)

EOF == -1

BMP_HEADER_SIZE == 14

BMP3_INFO_SIZE == 40

MIN_INFO_SIZE == BMP3_INFO_SIZE

BMP_COLOR_SIZE == 4

BMP_BIT_FIELD_SIZE == 4

COMPRESSION_NONE == {}

COMPRESSION_BITFIELDS == BitsOfNat(3)

BMPREAD_DEFAULT_ALPHA == 255

\* Byte k (0 = least significant) of a uint32_t, as the file stores it.
LittleByte(x, k) == SumPow2({b - 8 * k : b \in {c \in x : c \div 8 = k}})

\* Offset of the masks, of the palette and of the pixel data in the file.
MasksOffset == BMP_HEADER_SIZE + BMP3_INFO_SIZE

PaletteOffset(f) == MasksOffset + 4 * Len(f.masks) + f.gap

PixelOffset(f) == PaletteOffset(f) + BMP_COLOR_SIZE * f.colors

\* The bytes of palette entry i (file order blue, green, red, unused) and of
\* the pixel data: fixed patterns in which neighbouring bytes differ.
PaletteByte(f, i, c) == (f.seed + 16 * c + 5 * i + (i \div 16)) % 256

PixelByte(f, j) == (f.seed + 37 * j + 11 * (j \div 8)) % 256

FileByte(f, o) ==
    IF o = 0 THEN f.magic[1]
    ELSE IF o = 1 THEN f.magic[2]
    ELSE IF o < 6 THEN LittleByte(f.file_size, o - 2)
    ELSE IF o < 10 THEN LittleByte(f.reserved, o - 6)
    ELSE IF o < 14 THEN LittleByte(f.data_offset, o - 10)
    ELSE IF o < 18 THEN LittleByte(f.info_size, o - 14)
    ELSE IF o < 22 THEN LittleByte(ToUint32(f.width), o - 18)
    ELSE IF o < 26 THEN LittleByte(ToUint32(f.height), o - 22)
    ELSE IF o < 28 THEN LittleByte(BitsOfNat(f.planes), o - 26)
    ELSE IF o < 30 THEN LittleByte(BitsOfNat(f.bits), o - 28)
    ELSE IF o < 34 THEN LittleByte(f.compression, o - 30)
    ELSE IF o < 54 THEN LittleByte(f.unused, (o - 34) % 4)
    ELSE IF o < MasksOffset + 4 * Len(f.masks)
         THEN LittleByte(f.masks[((o - MasksOffset) \div 4) + 1],
                         (o - MasksOffset) % 4)
    ELSE IF o < PaletteOffset(f) THEN 0
    ELSE IF o < PixelOffset(f)
         THEN PaletteByte(f, (o - PaletteOffset(f)) \div BMP_COLOR_SIZE,
                          (o - PaletteOffset(f)) % BMP_COLOR_SIZE)
    ELSE PixelByte(f, o - PixelOffset(f))

(***************************************************************************)
(* The primitive readers (bmpread.c 126-193).  A stream position is the    *)
(* number of bytes consumed; each reader returns whether it succeeded, the *)
(* value stored in *dest and the position it leaves the stream at.         *)
(***************************************************************************)

fgetc(f, pos) == IF pos < f.len THEN FileByte(f, pos) ELSE EOF

\* *dest += (uint32_t)byte << shift: the bits added are above those set so
\* far, so the sum is the union of the bit sets.
RECURSIVE ReadLittleLoop(_, _, _, _, _)
ReadLittleLoop(f, pos, bytes, shift, dest) ==
    IF bytes = 0 THEN [ok |-> TRUE, value |-> dest, pos |-> pos]
    ELSE LET byte == fgetc(f, pos)
         IN  IF byte = EOF THEN [ok |-> FALSE, value |-> dest, pos |-> pos]
             ELSE ReadLittleLoop(f, pos + 1, bytes - 1, shift + 8,
                                 dest \cup ShiftLeft(BitsOfNat(byte), shift))

ReadLittleBytes(f, pos, bytes) == ReadLittleLoop(f, pos, bytes, 0, {})

ReadLittleUint32(f, pos) == ReadLittleBytes(f, pos, 4)

\* The low 31 bits of a uint32_t as an int32_t: the sign bit dropped.
AsInt32Unsigned(x) == U32Value(x \ {31})

\* The bits of a uint32_t read as an int32_t (the union of ReadLittleInt32).
AsInt32(x) ==
    IF 31 \in x THEN (U32Value(x \ {31}) - INT32_MAX) - 1 ELSE U32Value(x)

ReadLittleInt32(f, pos) ==
    LET r == ReadLittleBytes(f, pos, 4)
    IN  [ok |-> r.ok, value |-> IF r.ok THEN AsInt32(r.value) ELSE 0,
         pos |-> r.pos]

ReadLittleUint16(f, pos) ==
    LET r == ReadLittleBytes(f, pos, 2)
    IN  [ok |-> r.ok, value |-> IF r.ok THEN U32Value(r.value) ELSE 0,
         pos |-> r.pos]

ReadUint8(f, pos) ==
    LET byte == fgetc(f, pos)
    IN  IF byte = EOF THEN [ok |-> FALSE, value |-> 0, pos |-> pos]
        ELSE [ok |-> TRUE, value |-> byte, pos |-> pos + 1]

(***************************************************************************)
(* ReadHeader (bmpread.c 209-223) and ReadInfo (269-309).  Each is a run   *)
(* of reads into the fields of a struct that stops at the first read that  *)
(* fails, and returns whether it succeeded, the struct as the reads left   *)
(* it and the position of the stream.  The structs start zeroed (926), so  *)
(* a failed read, which stores nothing or the zero it had, leaves a zero.  *)
(***************************************************************************)

\* x < n and x > n for a uint32_t x and a natural n < 2^31.
U32Less(x, n) == 31 \notin x /\ U32Value(x) < n

U32Greater(x, n) == 31 \in x \/ U32Value(x) > n

ZeroHeader ==
    [magic |-> <<0, 0>>, file_size |-> {}, unused |-> {}, data_offset |-> {}]

ZeroInfo ==
    [info_size |-> {}, width |-> 0, height |-> 0, planes |-> 0, bits |-> 0,
     compression |-> {}, unused |-> <<{}, {}, {}, {}, {}>>,
     masks |-> <<{}, {}, {}, {}>>]

\* A field of a struct (index 0) or an element of an array field, and the
\* reader that fills it.
StructField(name, index, reader) ==
    [name |-> name, index |-> index, reader |-> reader]

ReadField(field, f, pos) ==
    CASE field.reader = "ReadUint8"        -> ReadUint8(f, pos)
      [] field.reader = "ReadLittleUint16" -> ReadLittleUint16(f, pos)
      [] field.reader = "ReadLittleInt32"  -> ReadLittleInt32(f, pos)
      [] field.reader = "ReadLittleUint32" -> ReadLittleUint32(f, pos)

\* *dest = value
Assign(rec, field, value) ==
    IF field.index = 0 THEN [rec EXCEPT ![field.name] = value]
    ELSE [rec EXCEPT ![field.name][field.index] = value]

\* if(!Read...(&rec->field, fp)) return 0; for fields[k], fields[k+1], ...
RECURSIVE ReadFields(_, _, _, _, _)
ReadFieldsNext(rec, fields, k, f, r) ==
    IF ~r.ok
    THEN [ok |-> FALSE, rec |-> Assign(rec, fields[k], r.value), pos |-> r.pos]
    ELSE ReadFields(Assign(rec, fields[k], r.value), fields, k + 1, f, r.pos)

ReadFields(rec, fields, k, f, pos) ==
    IF k > Len(fields) THEN [ok |-> TRUE, rec |-> rec, pos |-> pos]
    ELSE ReadFieldsNext(rec, fields, k, f, ReadField(fields[k], f, pos))

\* 218-220, after the magic bytes were read
ReadHeaderRest(r, f) ==
    IF ~r.ok THEN r
    ELSE IF r.rec.magic[1] # 66 THEN [r EXCEPT !.ok = FALSE]
    ELSE IF r.rec.magic[2] # 77 THEN [r EXCEPT !.ok = FALSE]
    ELSE ReadFields(r.rec,
                    <<StructField("file_size", 0, "ReadLittleUint32"),
                      StructField("unused", 0, "ReadLittleUint32"),
                      StructField("data_offset", 0, "ReadLittleUint32")>>,
                    1, f, r.pos)

ReadHeader(header, f, pos) ==
    ReadHeaderRest(ReadFields(header,
                              <<StructField("magic", 1, "ReadUint8"),
                                StructField("magic", 2, "ReadUint8")>>,
                              1, f, pos), f)

\* The alpha mask read whatever the size of the info block.
ReadInfoAlphaMaskAlways(r, f) ==
    IF ~r.ok THEN r
    ELSE ReadFields(r.rec, <<StructField("masks", 4, "ReadLittleUint32")>>,
                    1, f, r.pos)

\* 302-305
ReadInfoAlphaMask(r, f) ==
    IF ~r.ok THEN r
    ELSE IF ~U32Greater(r.rec.info_size, BMP3_INFO_SIZE) THEN r
    ELSE ReadFields(r.rec, <<StructField("masks", 4, "ReadLittleUint32")>>,
                    1, f, r.pos)

\* 292-306
ReadInfoMasks(r, f) ==
    IF ~r.ok THEN r
    ELSE IF r.rec.compression # COMPRESSION_BITFIELDS THEN r
    ELSE ReadInfoAlphaMask(
             ReadFields(r.rec,
                        <<StructField("masks", 1, "ReadLittleUint32"),
                          StructField("masks", 2, "ReadLittleUint32"),
                          StructField("masks", 3, "ReadLittleUint32")>>,
                        1, f, r.pos), f)

\* 276-287
ReadInfoFixed(r, f) ==
    IF ~r.ok THEN r
    ELSE IF U32Less(r.rec.info_size, MIN_INFO_SIZE) THEN [r EXCEPT !.ok = FALSE]
    ELSE ReadFields(r.rec,
                    <<StructField("width", 0, "ReadLittleInt32"),
                      StructField("height", 0, "ReadLittleInt32"),
                      StructField("planes", 0, "ReadLittleUint16"),
                      StructField("bits", 0, "ReadLittleUint16"),
                      StructField("compression", 0, "ReadLittleUint32"),
                      StructField("unused", 1, "ReadLittleUint32"),
                      StructField("unused", 2, "ReadLittleUint32"),
                      StructField("unused", 3, "ReadLittleUint32"),
                      StructField("unused", 4, "ReadLittleUint32"),
                      StructField("unused", 5, "ReadLittleUint32")>>,
                    1, f, r.pos)

ReadInfo(info, f, pos) ==
    ReadInfoMasks(
        ReadInfoFixed(
            ReadFields(info, <<StructField("info_size", 0, "ReadLittleUint32")>>,
                       1, f, pos), f), f)

(***************************************************************************)
(* ReadPalette (bmpread.c 331-355): `colors` entries of four bytes, each   *)
(* read by one fread; the first short read ends the loop with failure.     *)
(* The palette is a function from the entries read to their colours.       *)
(***************************************************************************)

PaletteEntry(f, pos) ==
    [blue |-> FileByte(f, pos), green |-> FileByte(f, pos + 1),
     red |-> FileByte(f, pos + 2), unused |-> FileByte(f, pos + 3)]

\* How many whole items of `size` bytes a stream at pos still holds.
ItemsLeft(f, pos, size) == IF pos >= f.len THEN 0 ELSE (f.len - pos) \div size

ReadPalette(colors, f, pos) ==
    LET avail == ItemsLeft(f, pos, BMP_COLOR_SIZE)
        n     == IF avail < colors THEN avail ELSE colors
    IN  [ok      |-> n = colors,
         palette |-> [i \in 0..(n - 1) |->
                          PaletteEntry(f, pos + BMP_COLOR_SIZE * i)],
         pos     |-> IF n = colors THEN pos + BMP_COLOR_SIZE * n
                     ELSE IF pos > f.len THEN pos ELSE f.len]

(***************************************************************************)
(* CreateBitField (bmpread.c 374-423).  value_multiplier, the float        *)
(* 255 / (2^bit_count - 1), is kept as the fraction num / den.             *)
(***************************************************************************)

RECURSIVE CreateBitFieldLoop(_, _, _, _)
CreateBitFieldLoop(bit_field_mask, bit_nr, bit_shift, bit_count) ==
    IF bit_nr >= BMP_BIT_FIELD_SIZE * 8
    THEN [ok |-> TRUE, bit_shift |-> bit_shift, bit_count |-> bit_count]
    ELSE IF bit_nr \in bit_field_mask
    THEN LET shift == IF bit_shift = 255 THEN bit_nr ELSE bit_shift
         IN  IF bit_nr # bit_count + shift
             THEN [ok |-> FALSE, bit_shift |-> shift, bit_count |-> bit_count]
             ELSE CreateBitFieldLoop(bit_field_mask, bit_nr + 1, shift,
                                     bit_count + 1)
    ELSE CreateBitFieldLoop(bit_field_mask, bit_nr + 1, bit_shift, bit_count)

CreateBitField(bit_field_mask) ==
    LET Field(shift, count, num, den) ==
            [bit_shift |-> shift, bit_count |-> count,
             bit_mask |-> bit_field_mask,
             value_multiplier |-> [num |-> num, den |-> den]]
        r == CreateBitFieldLoop(bit_field_mask, 0, 255, 0)
    IN  IF bit_field_mask = {}
        THEN [ok |-> TRUE, field |-> Field(0, 0, 0, 1)]
        ELSE IF ~r.ok
        THEN [ok |-> FALSE, field |-> Field(r.bit_shift, r.bit_count, 0, 1)]
        ELSE IF r.bit_count = 0 \/ r.bit_shift = 255
        THEN [ok |-> FALSE, field |-> Field(r.bit_shift, r.bit_count, 0, 1)]
        ELSE IF r.bit_count > 31
        THEN [ok |-> FALSE, field |-> Field(r.bit_shift, r.bit_count, 0, 1)]
        ELSE [ok |-> TRUE,
              field |-> Field(r.bit_shift, r.bit_count, 255,
                              (Pow2(r.bit_count - 1) - 1) + Pow2(r.bit_count - 1))]

ZeroBitField ==
    [bit_shift |-> 0, bit_count |-> 0, bit_mask |-> {},
     value_multiplier |-> [num |-> 0, den |-> 1]]

(***************************************************************************)
(* read_context (bmpread.c 467-482) as memset leaves it (926).  flags is   *)
(* the set of BMPREAD_* flags given; a pointer is NULL or the number of    *)
(* the block malloc returned; fp is NULL or the stream.                    *)
(***************************************************************************)

BMPREAD_FLAGS == {"TOP_DOWN", "BYTE_ALIGN", "ANY_SIZE", "ALPHA"}

STREAM == 1

ZeroContext ==
    [flags |-> {}, fp |-> NULL, header |-> ZeroHeader, info |-> ZeroInfo,
     lines |-> 0, file_line_len |-> 0, out_channel_count |-> 0,
     out_line_len |-> 0, palette |-> NULL,
     bit_fields |-> <<ZeroBitField, ZeroBitField, ZeroBitField, ZeroBitField>>,
     file_data |-> NULL, data_out |-> NULL]

\* The conversion of an int32_t or uint16_t to size_t.
ToSizeT(x) == WrapSize(x)

(***************************************************************************)
(* Validate (bmpread.c 488-618), one operator per group of statements.    *)
(* Each takes and returns the progress of the call: `at` is "run" until a  *)
(* return statement is taken and then names it, ctx is *p_ctx, pos the     *)
(* stream position, sizes what malloc was asked for, palette what          *)
(* ReadPalette stored.  `mallocs` says which of the three allocations the  *)
(* allocator grants, `fresh` is the number of the last block handed out    *)
(* before the call.                                                        *)
(***************************************************************************)

\* The switch of 498-513 with the RLE modes decoded like COMPRESSION_NONE.
IsSupportedWithRLE(info) ==
    IF info.compression \in {COMPRESSION_NONE, BitsOfNat(1), BitsOfNat(2)}
    THEN info.bits = 1 \/ info.bits = 4 \/ info.bits = 8 \/ info.bits = 24
    ELSE IF info.compression = COMPRESSION_BITFIELDS
    THEN info.bits = 16 \/ info.bits = 32
    ELSE FALSE

IsSupported(info) ==
    IF info.compression = COMPRESSION_NONE
    THEN info.bits = 1 \/ info.bits = 4 \/ info.bits = 8 \/ info.bits = 24
    ELSE IF info.compression = COMPRESSION_BITFIELDS
    THEN info.bits = 16 \/ info.bits = 32
    ELSE FALSE

\* return 0
Stop(r, at) == [r EXCEPT !.at = at]

\* 493
ValidateHeaderRead(r, rh) ==
    [r EXCEPT !.ctx.header = rh.rec, !.pos = rh.pos,
              !.at = IF rh.ok THEN "run" ELSE "header"]

ValidateHeader(r, f) ==
    ValidateHeaderRead(r, ReadHeader(r.ctx.header, f, r.pos))

\* ReadInfo followed by a test that planes is 1.
ValidateInfoReadPlanes(r, ri) ==
    [r EXCEPT !.ctx.info = ri.rec, !.pos = ri.pos,
              !.at = IF ri.ok /\ ri.rec.planes = 1 THEN "run" ELSE "info"]

\* 494
ValidateInfoRead(r, ri) ==
    [r EXCEPT !.ctx.info = ri.rec, !.pos = ri.pos,
              !.at = IF ri.ok THEN "run" ELSE "info"]

ValidateInfo(r, f) ==
    IF r.at # "run" THEN r
    ELSE ValidateInfoRead(r, ReadInfo(r.ctx.info, f, r.pos))

\* The test of the width alone.
ValidateDimensionsWidthOnly(r) ==
    IF r.at # "run" THEN r
    ELSE IF r.ctx.info.width <= 0 THEN Stop(r, "dimensions")
    ELSE r

\* 496
ValidateDimensions(r) ==
    IF r.at # "run" THEN r
    ELSE IF r.ctx.info.width <= 0 \/ r.ctx.info.height = 0
    THEN Stop(r, "dimensions")
    ELSE r

\* 498-514
ValidateFormat(r) ==
    IF r.at # "run" THEN r
    ELSE IF ~IsSupported(r.ctx.info) THEN Stop(r, "format")
    ELSE r

\* 516-519
ValidateFileLine(r) ==
    IF r.at # "run" THEN r
    ELSE IF ~CanMakeSizeT(r.ctx.info.width) THEN Stop(r, "width_size")
    ELSE LET len == GetLineLength(ToSizeT(r.ctx.info.width),
                                  ToSizeT(r.ctx.info.bits))
         IN  [r EXCEPT !.ctx.file_line_len = len,
                       !.at = IF len = 0 THEN "file_line_len" ELSE "run"]

\* The output line padded whatever the flags.
ValidateOutLinePadded(r) ==
    IF r.at # "run" THEN r
    ELSE IF ~CanMultiply(ToSizeT(r.ctx.info.width),
                         IF "ALPHA" \in r.ctx.flags THEN 4 ELSE 3)
    THEN [r EXCEPT !.ctx.out_channel_count =
                       IF "ALPHA" \in r.ctx.flags THEN 4 ELSE 3,
                   !.at = "out_multiply"]
    ELSE [r EXCEPT !.ctx.out_channel_count =
                       IF "ALPHA" \in r.ctx.flags THEN 4 ELSE 3,
                   !.ctx.out_line_len =
                       GetLineLength(ToSizeT(r.ctx.info.width),
                                     IF "ALPHA" \in r.ctx.flags
                                     THEN 32 ELSE 24),
                   !.at = "run"]

\* 521-541
ValidateOutLine(r) ==
    IF r.at # "run" THEN r
    ELSE LET count == IF "ALPHA" \in r.ctx.flags THEN 4 ELSE 3
             width == ToSizeT(r.ctx.info.width)
             len   == IF "BYTE_ALIGN" \in r.ctx.flags
                      THEN WrapMul(width, count)
                      ELSE GetLineLength(width, count * 8)
         IN  IF ~CanMultiply(width, count)
             THEN [r EXCEPT !.ctx.out_channel_count = count,
                            !.at = "out_multiply"]
             ELSE [r EXCEPT !.ctx.out_channel_count = count,
                            !.ctx.out_line_len = len,
                            !.at = IF "BYTE_ALIGN" \notin r.ctx.flags /\ len = 0
                                   THEN "out_line_len" ELSE "run"]

\* 543-546
ValidateLines(r) ==
    IF r.at # "run" THEN r
    ELSE IF ~CanNegate(r.ctx.info.height) THEN Stop(r, "negate")
    ELSE [r EXCEPT !.ctx.lines = IF r.ctx.info.height < 0
                                 THEN -r.ctx.info.height
                                 ELSE r.ctx.info.height]

\* The power-of-two test on the width alone.
ValidatePowerOf2WidthOnly(r) ==
    IF r.at # "run" \/ "ANY_SIZE" \in r.ctx.flags THEN r
    ELSE IF ~IsPowerOf2(ToUint32(r.ctx.info.width)) THEN Stop(r, "width_power")
    ELSE r

\* 548-555
ValidatePowerOf2(r) ==
    IF r.at # "run" \/ "ANY_SIZE" \in r.ctx.flags THEN r
    ELSE IF ~IsPowerOf2(ToUint32(r.ctx.info.width)) THEN Stop(r, "width_power")
    ELSE IF ~IsPowerOf2(ToUint32(r.ctx.lines)) THEN Stop(r, "lines_power")
    ELSE r

\* 573-578, with the palette allocated
ValidatePaletteRead(r, rp) ==
    [r EXCEPT !.palette = rp.palette, !.pos = rp.pos,
              !.at = IF rp.ok THEN "run" ELSE "palette_read"]

\* 561-579
ValidatePalette(r, f, mallocs, fresh) ==
    IF r.at # "run" \/ r.ctx.info.bits > 8 THEN r
    ELSE LET colors == Pow2(r.ctx.info.bits)
             asked  == [r EXCEPT !.sizes.palette = WrapMul(colors, BMP_COLOR_SIZE)]
             got    == [asked EXCEPT !.ctx.palette = fresh + 1]
         IN  IF ~mallocs.palette THEN Stop(asked, "palette_malloc")
             ELSE IF ~CanMakeLong(r.ctx.info.info_size)
             THEN Stop(got, "info_size_long")
             ELSE IF U32Value(r.ctx.info.info_size) > LONG_MAX - BMP_HEADER_SIZE
             THEN Stop(got, "info_size_seek")
             ELSE ValidatePaletteRead(
                      got, ReadPalette(colors, f, BMP_HEADER_SIZE
                                           + U32Value(r.ctx.info.info_size)))

\* The loop over the four channel masks (589-603).
\* The loop without the test for overlapping masks.
RECURSIVE BitFieldLoopOverlapping(_, _, _, _, _)
BitFieldLoopOverlapping(masks, channel_nr, total_bit_mask, total_bit_count, bit_fields) ==
    IF channel_nr > 4
    THEN [success |-> TRUE, total_bit_count |-> total_bit_count,
          bit_fields |-> bit_fields]
    ELSE IF ~CreateBitField(masks[channel_nr]).ok
    THEN [success |-> FALSE, total_bit_count |-> total_bit_count,
          bit_fields |-> bit_fields]
    ELSE BitFieldLoopOverlapping(
             masks, channel_nr + 1, total_bit_mask \cup masks[channel_nr],
             total_bit_count,
             [bit_fields EXCEPT
                 ![channel_nr] = CreateBitField(masks[channel_nr]).field])

RECURSIVE BitFieldLoop(_, _, _, _, _)
BitFieldLoop(masks, channel_nr, total_bit_mask, total_bit_count, bit_fields) ==
    IF channel_nr > 4
    THEN [success |-> TRUE, total_bit_count |-> total_bit_count,
          bit_fields |-> bit_fields]
    ELSE LET bit_mask == masks[channel_nr]
             made     == CreateBitField(bit_mask)
         IN  IF (total_bit_mask \cap bit_mask) # {}
             THEN [success |-> FALSE, total_bit_count |-> total_bit_count,
                   bit_fields |-> bit_fields]
             ELSE IF ~made.ok
             THEN [success |-> FALSE, total_bit_count |-> total_bit_count,
                   bit_fields |->
                       [bit_fields EXCEPT ![channel_nr] = made.field]]
             ELSE BitFieldLoop(masks, channel_nr + 1,
                               total_bit_mask \cup bit_mask,
                               total_bit_count + made.field.bit_count,
                               [bit_fields EXCEPT ![channel_nr] = made.field])

\* 604-605
ValidateBitFieldsMade(r, bf) ==
    [r EXCEPT !.ctx.bit_fields = bf.bit_fields,
              !.at = IF ~bf.success THEN "bit_fields"
                     ELSE IF bf.total_bit_count > r.ctx.info.bits
                     THEN "bit_count" ELSE "run"]

\* 581-606
ValidateBitFields(r) ==
    IF r.at # "run" \/ r.ctx.info.compression # COMPRESSION_BITFIELDS THEN r
    ELSE ValidateBitFieldsMade(
             r, BitFieldLoop(r.ctx.info.masks, 1, {}, 0, r.ctx.bit_fields))

\* The number of the next block malloc hands out during this call.
NextBlock(r, fresh) == IF r.ctx.palette # NULL THEN fresh + 2 ELSE fresh + 1

\* The allocations without CanMakeSizeT and CanMultiply.
ValidateBuffersUnchecked(r, mallocs, fresh) ==
    IF r.at # "run" THEN r
    ELSE LET asked == [r EXCEPT !.sizes.file_data = r.ctx.file_line_len]
             got   == [asked EXCEPT !.ctx.file_data = NextBlock(r, fresh)]
             size  == WrapMul(ToSizeT(r.ctx.lines), r.ctx.out_line_len)
         IN  IF ~mallocs.file_data THEN Stop(asked, "file_data_malloc")
             ELSE IF ~mallocs.data_out
             THEN [got EXCEPT !.sizes.data_out = size, !.at = "data_out_malloc"]
             ELSE [got EXCEPT !.sizes.data_out = size,
                              !.ctx.data_out = NextBlock(r, fresh) + 1,
                              !.ok = TRUE, !.at = "ok"]

\* 609-615
ValidateBuffers(r, mallocs, fresh) ==
    IF r.at # "run" THEN r
    ELSE LET asked == [r EXCEPT !.sizes.file_data = r.ctx.file_line_len]
             got   == [asked EXCEPT !.ctx.file_data = NextBlock(r, fresh)]
             size  == WrapMul(ToSizeT(r.ctx.lines), r.ctx.out_line_len)
         IN  IF ~mallocs.file_data THEN Stop(asked, "file_data_malloc")
             ELSE IF ~CanMakeSizeT(r.ctx.lines) THEN Stop(got, "lines_size")
             ELSE IF ~CanMultiply(ToSizeT(r.ctx.lines), r.ctx.out_line_len)
             THEN Stop(got, "out_size")
             ELSE IF ~mallocs.data_out
             THEN [got EXCEPT !.sizes.data_out = size, !.at = "data_out_malloc"]
             ELSE [got EXCEPT !.sizes.data_out = size,
                              !.ctx.data_out = NextBlock(r, fresh) + 1,
                              !.ok = TRUE, !.at = "ok"]

Validate(ctx0, f, pos0, mallocs, fresh) ==
    ValidateBuffers(
        ValidateBitFields(
            ValidatePalette(
                ValidatePowerOf2(
                    ValidateLines(
                        ValidateOutLine(
                            ValidateFileLine(
                                ValidateFormat(
                                    ValidateDimensions(
                                        ValidateInfo(
                                            ValidateHeader(
                                                [ok |-> FALSE, at |-> "run",
                                                 ctx |-> ctx0, pos |-> pos0,
                                                 sizes |-> [palette |-> 0,
                                                            file_data |-> 0,
                                                            data_out |-> 0],
                                                 palette |-> <<>>],
                                                f), f))))))),
                f, mallocs, fresh)),
        mallocs, fresh)

(***************************************************************************)
(* The scan-line decoders (bmpread.c 625-825).  `row` is the raw-line      *)
(* scratch buffer after fread, a function from 0..file_line_len-1 to       *)
(* bytes; `count` is p_out_end - p_out.  Each decoder returns the bytes it *)
(* stores through *p_out++, in order.                                      *)
(*                                                                         *)
(* What the C standard leaves to the build is an input `build`:            *)
(*   host    the byte order of the uint32_t Decode16 and Decode32 load     *)
(*           from the scratch buffer;                                      *)
(*   beyond  the byte a load past the end of the scratch buffer yields;    *)
(*   low     whether the float product value * value_multiplier falls just *)
(*           below an integer it equals exactly (255/7, 255/31, ... are    *)
(*           not floats, and the product is truncated).                    *)
(***************************************************************************)

RowByte(row, j, build) == IF j \in DOMAIN row THEN row[j] ELSE build.beyond

\* *(uint32_t *)p_file
LoadUint32(row, p_file, build) ==
    LET Byte(k) == RowByte(row, p_file + k, build)
        At(k)   == IF build.host = "little" THEN k ELSE 3 - k
    IN  UNION {ShiftLeft(BitsOfNat(Byte(k)), 8 * At(k)) : k \in 0..3}

\* floor(255 * v / den) for 0 <= v <= den, by Horner's rule on the bits of
\* 255 with the quotient and remainder kept apart.
\* One step: quotient and remainder of (2 * (q * den + r) + v) by den.
ScaleStep(v, den, q, r) ==
    LET dq == IF r >= den - r THEN 2 * q + 1 ELSE 2 * q
        dr == IF r >= den - r THEN r - (den - r) ELSE r + r
    IN  [q |-> IF dr >= den - v THEN dq + 1 ELSE dq,
         r |-> IF dr >= den - v THEN dr - (den - v) ELSE dr + v]

RECURSIVE ScaleLoop(_, _, _, _, _)
ScaleLoop(v, den, steps, q, r) ==
    IF steps = 0 THEN [q |-> q, r |-> r]
    ELSE CHOOSE s \in {ScaleLoop(v, den, steps - 1, n.q, n.r) :
                          n \in {ScaleStep(v, den, q, r)}} : TRUE

\* The conversion of the float product to uint8_t: s holds the quotient and
\* the remainder of 255 * v by den.
Truncated(s, den, build) ==
    IF s.r = 0 /\ s.q > 0 /\ 255 % den # 0 /\ build.low THEN s.q - 1 ELSE s.q

\* (uint8_t)(((value & bit_mask) >> bit_shift) * value_multiplier)
Channel(value, field, build) ==
    IF field.value_multiplier.num = 0 THEN 0
    ELSE CHOOSE c \in
             {Truncated(s, field.value_multiplier.den, build) :
                 s \in {ScaleLoop(v, field.value_multiplier.den, 8, 0, 0) :
                           v \in {U32Value(ShiftRight(
                                      value \cap field.bit_mask,
                                      field.bit_shift))}}} : TRUE

\* One pixel of Decode16 and Decode32 (636-665, 711-740).
BitFieldPixel(value, p_ctx, build) ==
    CHOOSE pixel \in
        {<<Channel(v, p_ctx.bit_fields[1], build),
           Channel(v, p_ctx.bit_fields[2], build),
           Channel(v, p_ctx.bit_fields[3], build)>>
         \o (IF p_ctx.out_channel_count = 4
             THEN IF p_ctx.bit_fields[4].bit_mask # {}
                  THEN <<Channel(v, p_ctx.bit_fields[4], build)>>
                  ELSE <<BMPREAD_DEFAULT_ALPHA>>
             ELSE <<>>) : v \in {value}} : TRUE

\* The alpha byte written whatever the channel count.
DefaultAlphaAlways(p_ctx) == <<BMPREAD_DEFAULT_ALPHA>>

DefaultAlpha(p_ctx) ==
    IF p_ctx.out_channel_count = 4 THEN <<BMPREAD_DEFAULT_ALPHA>> ELSE <<>>

RECURSIVE Decode32Loop(_, _, _, _, _, _)
Decode32Loop(out, count, p_file, row, p_ctx, build) ==
    IF Len(out) >= count THEN out
    ELSE CHOOSE all \in
             {Decode32Loop(out \o pixel, count, p_file + 4, row, p_ctx, build) :
                 pixel \in {BitFieldPixel(LoadUint32(row, p_file, build),
                                          p_ctx, build)}} : TRUE

Decode32(count, row, palette, p_ctx, build) ==
    Decode32Loop(<<>>, count, 0, row, p_ctx, build)

RECURSIVE Decode24Loop(_, _, _, _, _, _)
Decode24Loop(out, count, p_file, row, p_ctx, build) ==
    IF Len(out) >= count THEN out
    ELSE Decode24Loop(
             out \o <<RowByte(row, p_file + 2, build),
                      RowByte(row, p_file + 1, build),
                      RowByte(row, p_file, build)>> \o DefaultAlpha(p_ctx),
             count, p_file + 3, row, p_ctx, build)

\* The bytes of the row as the file stores them.
Decode24AsStored(count, row, palette, p_ctx, build) ==
    [j \in 1..count |-> RowByte(row, j - 1, build)]

Decode24(count, row, palette, p_ctx, build) ==
    Decode24Loop(<<>>, count, 0, row, p_ctx, build)

RECURSIVE Decode16Loop(_, _, _, _, _, _)
Decode16Loop(out, count, p_file, row, p_ctx, build) ==
    IF Len(out) >= count THEN out
    ELSE CHOOSE all \in
             {Decode16Loop(out \o pixel, count, p_file + 2, row, p_ctx, build) :
                 pixel \in {BitFieldPixel(LoadUint32(row, p_file, build),
                                          p_ctx, build)}} : TRUE

Decode16(count, row, palette, p_ctx, build) ==
    Decode16Loop(<<>>, count, 0, row, p_ctx, build)

\* palette[lookup].red, .green, .blue and the alpha, if any.
\* The entry emitted in the order of the file: blue, green, red.
PaletteLookupFileOrder(palette, lookup, p_ctx) ==
    <<palette[lookup].blue, palette[lookup].green, palette[lookup].red>>
    \o DefaultAlpha(p_ctx)

PaletteLookup(palette, lookup, p_ctx) ==
    <<palette[lookup].red, palette[lookup].green, palette[lookup].blue>>
    \o DefaultAlpha(p_ctx)

RECURSIVE Decode8Loop(_, _, _, _, _, _, _)
Decode8Loop(out, count, p_file, row, palette, p_ctx, build) ==
    IF Len(out) >= count THEN out
    ELSE Decode8Loop(
             out \o PaletteLookup(palette, RowByte(row, p_file, build), p_ctx),
             count, p_file + 1, row, palette, p_ctx, build)

Decode8(count, row, palette, p_ctx, build) ==
    Decode8Loop(<<>>, count, 0, row, palette, p_ctx, build)

RECURSIVE Decode4Loop(_, _, _, _, _, _, _)
Decode4Loop(out, count, p_file, row, palette, p_ctx, build) ==
    IF Len(out) >= count THEN out
    ELSE LET byte == RowByte(row, p_file, build)
             high == out \o PaletteLookup(palette, byte \div 16, p_ctx)
         IN  IF Len(high) >= count
             THEN Decode4Loop(high, count, p_file, row, palette, p_ctx, build)
             ELSE Decode4Loop(
                      high \o PaletteLookup(palette, byte % 16, p_ctx),
                      count, p_file + 1, row, palette, p_ctx, build)

Decode4(count, row, palette, p_ctx, build) ==
    Decode4Loop(<<>>, count, 0, row, palette, p_ctx, build)

\* The inner for loop of Decode1 (811-821).
RECURSIVE Decode1Bits(_, _, _, _, _, _)
Decode1Bits(out, count, bit, byte, palette, p_ctx) ==
    IF ~(bit < 8 /\ Len(out) < count) THEN out
    ELSE Decode1Bits(
             out \o PaletteLookup(palette, (byte \div Pow2(7 - bit)) % 2, p_ctx),
             count, bit + 1, byte, palette, p_ctx)

RECURSIVE Decode1Loop(_, _, _, _, _, _, _)
Decode1Loop(out, count, p_file, row, palette, p_ctx, build) ==
    IF Len(out) >= count THEN out
    ELSE Decode1Loop(
             Decode1Bits(out, count, 0, RowByte(row, p_file, build),
                         palette, p_ctx),
             count, p_file + 1, row, palette, p_ctx, build)

Decode1(count, row, palette, p_ctx, build) ==
    Decode1Loop(<<>>, count, 0, row, palette, p_ctx, build)

(***************************************************************************)
(* Decode (bmpread.c 830-902).  Pointers into the output buffer are byte   *)
(* offsets from data_out.  The result holds the return value, the name of  *)
(* the return statement taken, the bytes stored in the output buffer (a    *)
(* function from the offsets written to the bytes), the number of rows     *)
(* read and decoded and the stream position.                               *)
(***************************************************************************)

\* ptrdiff_t is the signed type as wide as size_t.
PTRDIFF_MAX == SIZE_MAX \div 2

RunDecoder(count, row, palette, p_ctx, build) ==
    CASE p_ctx.info.bits = 32 -> Decode32(count, row, palette, p_ctx, build)
      [] p_ctx.info.bits = 24 -> Decode24(count, row, palette, p_ctx, build)
      [] p_ctx.info.bits = 16 -> Decode16(count, row, palette, p_ctx, build)
      [] p_ctx.info.bits = 8  -> Decode8(count, row, palette, p_ctx, build)
      [] p_ctx.info.bits = 4  -> Decode4(count, row, palette, p_ctx, build)
      [] p_ctx.info.bits = 1  -> Decode1(count, row, palette, p_ctx, build)

\* An fread that never comes up short.
ReadLineUnchecked(f, pos, file_line_len) ==
    [ok |-> TRUE, pos |-> pos + file_line_len,
     row |-> [j \in 0..(file_line_len - 1) |-> FileByte(f, pos + j)]]

\* fread(file_data, 1, file_line_len, fp) at stream position pos.
ReadLine(f, pos, file_line_len) ==
    IF pos <= f.len /\ file_line_len <= f.len - pos
    THEN [ok |-> TRUE, pos |-> pos + file_line_len,
          row |-> [j \in 0..(file_line_len - 1) |-> FileByte(f, pos + j)]]
    ELSE [ok |-> FALSE, pos |-> IF pos > f.len THEN pos ELSE f.len,
          row |-> <<>>]

\* The bytes `line` stored from offset p_out on, added to `stored`.
Store(stored, p_out, line) ==
    LET new == {p_out + k - 1 : k \in 1..Len(line)}
    IN  [o \in (DOMAIN stored) \cup new |->
            IF o \in new THEN line[o - p_out + 1] ELSE stored[o]]

\* The while loop (891-899) and the return after it.
RECURSIVE DecodeLoop(_, _, _, _, _, _, _, _, _, _, _)
DecodeLoop(p_out, p_out_end, p_line_end, out_inc, pos, stored, rows, p_ctx, f, palette, build) ==
    IF p_out = p_out_end
    THEN [ok |-> TRUE, at |-> "ok", stored |-> stored, rows |-> rows,
          pos |-> pos]
    ELSE LET r == ReadLine(f, pos, p_ctx.file_line_len)
         IN  IF ~r.ok
             THEN [ok |-> FALSE, at |-> "short_read", stored |-> stored,
                   rows |-> rows, pos |-> r.pos]
             ELSE DecodeLoop(p_out + out_inc, p_out_end, p_line_end + out_inc,
                             out_inc, r.pos,
                             Store(stored, p_out,
                                   RunDecoder(p_line_end - p_out, r.row,
                                              palette, p_ctx, build)),
                             rows + 1, p_ctx, f, palette, build)

\* The test of 853 without the sign of the height.
KeepsOrderOfFlag(p_ctx) == "TOP_DOWN" \in p_ctx.flags

\* The test of 853 without the flag.
KeepsOrderOfBottomUp(p_ctx) == ~(p_ctx.info.height < 0)

\* Whether the scan lines keep the order of the file (853).
KeepsOrder(p_ctx) == (p_ctx.info.height < 0) = ("TOP_DOWN" \in p_ctx.flags)

Decode(p_ctx, f, pos0, palette, build) ==
    LET Fail(at) == [ok |-> FALSE, at |-> at, stored |-> <<>>, rows |-> 0,
                     pos |-> pos0]
        lines  == ToSizeT(p_ctx.lines)
        p_out  == IF KeepsOrder(p_ctx) THEN 0
                  ELSE WrapMul(WrapSize(lines - 1), p_ctx.out_line_len)
        p_out_end == IF KeepsOrder(p_ctx) THEN WrapMul(lines, p_ctx.out_line_len)
                     ELSE -p_ctx.out_line_len
        out_inc == IF KeepsOrder(p_ctx) THEN p_ctx.out_line_len
                   ELSE -p_ctx.out_line_len
        p_line_end == p_out + WrapMul(ToSizeT(p_ctx.info.width),
                                      p_ctx.out_channel_count)
    IN  IF SIZE_MAX > PTRDIFF_MAX /\ p_ctx.out_line_len > PTRDIFF_MAX
        THEN Fail("stride")
        ELSE IF p_ctx.info.bits \notin {32, 24, 16, 8, 4, 1} THEN Fail("depth")
        ELSE IF ~CanMakeLong(p_ctx.header.data_offset) THEN Fail("offset_long")
        ELSE DecodeLoop(p_out, p_out_end, p_line_end, out_inc,
                        U32Value(p_ctx.header.data_offset), <<>>, 0,
                        p_ctx, f, palette, build)

(***************************************************************************)
(* The heap.  heap[b] is the b-th block malloc returned: what it was       *)
(* allocated for, the size requested, how often free has been called on it *)
(* and, while it is live, its content.                                     *)
(***************************************************************************)

Block(kind, size, data) ==
    [kind |-> kind, size |-> size, frees |-> 0, data |-> data]

Live(b) == b \in DOMAIN heap /\ heap[b].frees = 0

\* free(ptr) on heap h.
Free(h, ptr) == [h EXCEPT ![ptr].frees = @ + 1, ![ptr].data = <<>>]

\* What malloc is asked for and grants during one Validate.
MallocOutcomes ==
    {[palette |-> TRUE,  file_data |-> TRUE,  data_out |-> TRUE],
     [palette |-> FALSE, file_data |-> TRUE,  data_out |-> TRUE],
     [palette |-> TRUE,  file_data |-> FALSE, data_out |-> TRUE],
     [palette |-> TRUE,  file_data |-> TRUE,  data_out |-> FALSE]}

Builds ==
    [host : {"little", "big"}, beyond : {0, 255}, low : BOOLEAN]

(***************************************************************************)
(* bmpread (bmpread.c 921-962), one action per statement of its body, and  *)
(* bmpread_free (964-973).                                                 *)
(***************************************************************************)

ZeroBmp == [width |-> 0, height |-> 0, flags |-> {}, data |-> NULL]

NoArgs == [bmp_file |-> [name |-> "none"], flags |-> {}, p_bmp_out |-> "none"]

NoNote == [at |-> "none", rows |-> 0]

NoProbe == [fn |-> "none", arg |-> <<>>, done |-> FALSE, out |-> 0]

ClosedStream == [open |-> FALSE, pos |-> 0]

\* 923-936: the locals, the argument checks, the memset of *p_bmp_out, fopen.
BmpreadEnter(bmp_file, flags, p_bmp_out) ==
    /\ pc = "idle"
    /\ calls' = calls + 1
    /\ args' = [bmp_file |-> bmp_file, flags |-> flags,
                p_bmp_out |-> p_bmp_out]
    /\ success' = FALSE
    /\ IF bmp_file.name = "NULL"
       THEN /\ note' = [at |-> "null_file", rows |-> 0]
            /\ ctx' = ZeroContext
            /\ pc' = "free_context"
            /\ UNCHANGED <<bmp, stream>>
       ELSE IF p_bmp_out = "NULL"
       THEN /\ note' = [at |-> "null_out", rows |-> 0]
            /\ ctx' = ZeroContext
            /\ pc' = "free_context"
            /\ UNCHANGED <<bmp, stream>>
       ELSE /\ bmp' = ZeroBmp
            /\ IF bmp_file.exists
               THEN /\ ctx' = [ZeroContext EXCEPT !.flags = flags,
                                                  !.fp = STREAM]
                    /\ stream' = [open |-> TRUE, pos |-> 0]
                    /\ note' = NoNote
                    /\ pc' = "validate"
               ELSE /\ ctx' = [ZeroContext EXCEPT !.flags = flags]
                    /\ note' = [at |-> "fopen", rows |-> 0]
                    /\ pc' = "free_context"
                    /\ UNCHANGED stream
    /\ UNCHANGED <<heap, probe>>

\* The blocks Validate's result r allocated, appended to the heap.
Allocated(h, r) ==
    h \o (IF r.ctx.palette # NULL
          THEN <<Block("palette", r.sizes.palette, r.palette)>> ELSE <<>>)
      \o (IF r.ctx.file_data # NULL
          THEN <<Block("file_data", r.sizes.file_data, <<>>)>> ELSE <<>>)
      \o (IF r.ctx.data_out # NULL
          THEN <<Block("data_out", r.sizes.data_out, <<>>)>> ELSE <<>>)

\* 937
ValidateStep ==
    /\ pc = "validate"
    /\ \E mallocs \in MallocOutcomes :
       \E r \in {Validate(ctx, args.bmp_file, stream.pos, mallocs, Len(heap))} :
             /\ ctx' = r.ctx
             /\ heap' = Allocated(heap, r)
             /\ stream' = [stream EXCEPT !.pos = r.pos]
             /\ note' = [at |-> r.at, rows |-> 0]
             /\ pc' = IF r.ok THEN "decode" ELSE "free_context"
    /\ UNCHANGED <<args, success, bmp, calls, probe>>

\* 938
DecodeStep ==
    /\ pc = "decode"
    /\ \E build \in Builds :
       \E r \in {Decode(ctx, args.bmp_file, stream.pos,
                          IF ctx.palette # NULL THEN heap[ctx.palette].data
                          ELSE <<>>, build)} :
             /\ heap' = [heap EXCEPT ![ctx.data_out].data = r.stored]
             /\ stream' = [stream EXCEPT !.pos = r.pos]
             /\ note' = [at |-> r.at, rows |-> r.rows]
             /\ pc' = IF r.ok THEN "publish" ELSE "free_context"
    /\ UNCHANGED <<args, ctx, success, bmp, calls, probe>>

(***************************************************************************)
(* Decode one scan line at a time: what Decode does up to its loop         *)
(* (830-886), one turn of the loop (888-899), and the return (901).  While *)
(* the loop runs pc = "decode_loop" and probe holds Decode's locals.       *)
(***************************************************************************)

\* 847-886: the locals as the loop finds them, or the return 0 taken.
DecodeStart(p_ctx) ==
    [at |-> IF SIZE_MAX > PTRDIFF_MAX /\ p_ctx.out_line_len > PTRDIFF_MAX
            THEN "stride"
            ELSE IF p_ctx.info.bits \notin {32, 24, 16, 8, 4, 1} THEN "depth"
            ELSE IF ~CanMakeLong(p_ctx.header.data_offset) THEN "offset_long"
            ELSE "run",
     p_out |-> IF KeepsOrder(p_ctx) THEN 0
               ELSE WrapMul(WrapSize(ToSizeT(p_ctx.lines) - 1),
                            p_ctx.out_line_len),
     p_out_end |-> IF KeepsOrder(p_ctx)
                   THEN WrapMul(ToSizeT(p_ctx.lines), p_ctx.out_line_len)
                   ELSE -p_ctx.out_line_len,
     out_inc |-> IF KeepsOrder(p_ctx) THEN p_ctx.out_line_len
                 ELSE -p_ctx.out_line_len,
     width |-> WrapMul(ToSizeT(p_ctx.info.width), p_ctx.out_channel_count)]

\* The offsets into the scratch buffer that a decoder reads for pixel p: the
\* four bytes of *(uint32_t *)p_file with p_file advanced by 4 (Decode32,
\* 636, 667) or by 2 (Decode16, 711, 742) a pixel, p_file[0..2] advanced by
\* 3 (Decode24, 683-692), *p_file advanced by 1 a pixel (Decode8), every
\* second pixel (Decode4) and every eighth (Decode1).
PixelReads(p, bits) ==
    CASE bits = 32 -> (4 * p)..(4 * p + 3)
      [] bits = 24 -> (3 * p)..(3 * p + 2)
      [] bits = 16 -> (2 * p)..(2 * p + 3)
      [] bits = 8  -> {p}
      [] bits = 4  -> {p \div 2}
      [] bits = 1  -> {p \div 8}

\* What a decoder reads to write `count` bytes, out_channel_count a pixel.
DecoderReads(count, p_ctx) ==
    UNION {PixelReads(p, p_ctx.info.bits) :
              p \in 0..((count \div p_ctx.out_channel_count) - 1)}

\* 888, 901: a short read ends the loop and Decode returns 0.
DecodeRowShort(r) ==
    /\ stream' = [stream EXCEPT !.pos = r.pos]
    /\ note' = [note EXCEPT !.at = "short_read"]
    /\ probe' = [fn |-> "Decode", reads |-> probe.reads + 1,
                 loaded |-> probe.loaded]
    /\ pc' = "free_context"
    /\ UNCHANGED heap

\* 889-898, after the fread that returned r: `line` is what the decoder
\* writes from p_out on.
DecodeRowStore(r, line) ==
    /\ stream' = [stream EXCEPT !.pos = r.pos]
    /\ heap' = [heap EXCEPT ![ctx.data_out].data = Store(@, probe.p_out, line)]
    /\ note' = [note EXCEPT !.rows = @ + 1]
    /\ probe' = [probe EXCEPT
                    !.reads = @ + 1,
                    !.loaded = @ \cup DecoderReads(
                                          probe.p_line_end - probe.p_out, ctx),
                    !.p_out = @ + probe.out_inc,
                    !.p_line_end = @ + probe.out_inc]
    /\ UNCHANGED pc

DecodeEnter ==
    /\ pc = "decode"
    /\ \E build \in Builds :
       \E s \in {DecodeStart(ctx)} :
             /\ probe' = IF s.at = "run"
                          THEN [fn |-> "Decode", build |-> build, reads |-> 0,
                                loaded |-> {},
                                p_out |-> s.p_out, p_out_end |-> s.p_out_end,
                                p_line_end |-> s.p_out + s.width,
                                out_inc |-> s.out_inc]
                          ELSE [fn |-> "Decode", reads |-> 0, loaded |-> {}]
             /\ note' = [at |-> s.at, rows |-> 0]
             /\ stream' = IF s.at = "run"
                          THEN [stream EXCEPT
                                   !.pos = U32Value(ctx.header.data_offset)]
                          ELSE stream
             /\ pc' = IF s.at = "run" THEN "decode_loop" ELSE "free_context"
    /\ UNCHANGED <<args, ctx, success, heap, bmp, calls>>

DecodeRow ==
    /\ pc = "decode_loop"
    /\ probe.p_out # probe.p_out_end
    /\ \E r \in {ReadLine(args.bmp_file, stream.pos, ctx.file_line_len)} :
           IF ~r.ok THEN DecodeRowShort(r)
           ELSE \E line \in {RunDecoder(probe.p_line_end - probe.p_out, r.row,
                                        IF ctx.palette # NULL
                                        THEN heap[ctx.palette].data ELSE <<>>,
                                        ctx, probe.build)} :
                    DecodeRowStore(r, line)
    /\ UNCHANGED <<args, ctx, success, bmp, calls>>

\* 888, 901: p_out == p_out_end ends the loop, and Decode returns 1.
DecodeLeave ==
    /\ pc = "decode_loop"
    /\ probe.p_out = probe.p_out_end
    /\ note' = [note EXCEPT !.at = "ok"]
    /\ probe' = [fn |-> "Decode", reads |-> probe.reads,
                 loaded |-> probe.loaded]
    /\ pc' = "publish"
    /\ UNCHANGED <<args, ctx, success, stream, heap, bmp, calls>>

\* 951-956
Publish ==
    /\ pc = "publish"
    /\ bmp' = [width |-> ctx.info.width, height |-> ctx.lines,
               flags |-> ctx.flags, data |-> ctx.data_out]
    /\ success' = TRUE
    /\ pc' = "free_context"
    /\ UNCHANGED <<args, ctx, note, stream, heap, calls, probe>>

\* FreeContext that never frees data_out.
FreeContextKeepsOutput(h, p_ctx, leave_data_out) ==
    LET h1 == IF p_ctx.palette # NULL THEN Free(h, p_ctx.palette) ELSE h
        h2 == IF p_ctx.file_data # NULL THEN Free(h1, p_ctx.file_data) ELSE h1
    IN  h2

\* FreeContext that frees data_out whatever leave_data_out says.
FreeContextFreesOutput(h, p_ctx, leave_data_out) ==
    LET h1 == IF p_ctx.palette # NULL THEN Free(h, p_ctx.palette) ELSE h
        h2 == IF p_ctx.file_data # NULL THEN Free(h1, p_ctx.file_data) ELSE h1
    IN  IF p_ctx.data_out # NULL THEN Free(h2, p_ctx.data_out) ELSE h2

\* FreeContext (908-919): the heap it leaves.

FreeContext(h, p_ctx, leave_data_out) ==
    LET h1 == IF p_ctx.palette # NULL THEN Free(h, p_ctx.palette) ELSE h
        h2 == IF p_ctx.file_data # NULL THEN Free(h1, p_ctx.file_data) ELSE h1
    IN  IF ~leave_data_out /\ p_ctx.data_out # NULL
        THEN Free(h2, p_ctx.data_out) ELSE h2

\* 959
FreeContextStep ==
    /\ pc = "free_context"
    /\ stream' = IF ctx.fp # NULL THEN [stream EXCEPT !.open = FALSE]
                 ELSE stream
    /\ heap' = FreeContext(heap, ctx, success)
    /\ pc' = "return"
    /\ UNCHANGED <<args, ctx, success, note, bmp, calls, probe>>

\* 961: the call returns `success` and its frame is gone.
Return ==
    /\ pc = "return"
    /\ pc' = "idle"
    /\ args' = NoArgs
    /\ ctx' = ZeroContext
    /\ note' = NoNote
    /\ stream' = ClosedStream
    /\ UNCHANGED <<success, heap, bmp, calls, probe>>

\* bmpread_free without the memset.
bmpread_free_keeping(p_bmp) ==
    /\ pc = "idle"
    /\ IF p_bmp # "NULL"
       THEN /\ heap' = IF bmp.data # NULL THEN Free(heap, bmp.data) ELSE heap
            /\ UNCHANGED bmp
       ELSE UNCHANGED <<heap, bmp>>
    /\ UNCHANGED <<pc, args, ctx, success, note, stream, calls, probe>>

\* bmpread_free(&bmp) and bmpread_free(NULL).
bmpread_free(p_bmp) ==
    /\ pc = "idle"
    /\ IF p_bmp # "NULL"
       THEN /\ heap' = IF bmp.data # NULL THEN Free(heap, bmp.data) ELSE heap
            /\ bmp' = ZeroBmp
       ELSE UNCHANGED <<heap, bmp>>
    /\ UNCHANGED <<pc, args, ctx, success, note, stream, calls, probe>>

(***************************************************************************)
(* The files and flags bmpread is called with.                             *)
(***************************************************************************)

\* Images of up to MaxDim x MaxDim pixels come with all their pixel data;
\* the files of larger images end where the pixel data would start.
MaxDim == 3

\* How many bmpread calls the caller makes in a row.
MaxCalls == 2

Bits(lo, hi) == lo..hi

\* The R, G, B (and A) masks of the usual 16- and 32-bit layouts.
Masks565 == <<Bits(11, 15), Bits(5, 10), Bits(0, 4)>>

Masks888 == <<Bits(16, 23), Bits(8, 15), Bits(0, 7)>>

Masks8888 == <<Bits(16, 23), Bits(8, 15), Bits(0, 7), Bits(24, 31)>>

\* A well-formed file of the given geometry and format: `masks` channel
\* masks after the 40 fixed info bytes, the palette at 14 + info_size, the
\* pixel data right after it and data_offset pointing there.
BmpFile(width, height, bits, compression, masks, info_size) ==
    LET inInfo == 4 * Len(masks)
        gap    == IF info_size > BMP3_INFO_SIZE + inInfo
                  THEN info_size - BMP3_INFO_SIZE - inInfo ELSE 0
        colors == IF bits \in 1..8 THEN Pow2(bits) ELSE 0
        lines  == IF height < 0 THEN -height ELSE height
        pixels == IF width \in 1..MaxDim /\ height \in (-MaxDim)..MaxDim
                  THEN (((width * bits + 31) \div 32) * 4) * lines ELSE 0
        start  == MasksOffset + inInfo + gap + BMP_COLOR_SIZE * colors
    IN  [name |-> "file", exists |-> TRUE, magic |-> <<66, 77>>,
         file_size |-> BitsOfNat(start + pixels), reserved |-> {},
         data_offset |-> BitsOfNat(start), info_size |-> BitsOfNat(info_size),
         width |-> width, height |-> height, planes |-> 1, bits |-> bits,
         compression |-> compression, unused |-> {}, masks |-> masks,
         gap |-> gap, colors |-> colors, seed |-> 1, len |-> start + pixels]

\* The six supported formats, with the usual masks.
Formats ==
    {[bits |-> 1,  compression |-> COMPRESSION_NONE, masks |-> <<>>],
     [bits |-> 4,  compression |-> COMPRESSION_NONE, masks |-> <<>>],
     [bits |-> 8,  compression |-> COMPRESSION_NONE, masks |-> <<>>],
     [bits |-> 24, compression |-> COMPRESSION_NONE, masks |-> <<>>],
     [bits |-> 16, compression |-> COMPRESSION_BITFIELDS, masks |-> Masks565],
     [bits |-> 32, compression |-> COMPRESSION_BITFIELDS, masks |-> Masks888]}

FormatFile(width, height, fmt) ==
    BmpFile(width, height, fmt.bits, fmt.compression, fmt.masks,
            BMP3_INFO_SIZE)

Input(file, flags) == [file |-> file, flags |-> flags, out |-> "bmp"]

\* The flag combinations the small images are loaded under.
FlagSets ==
    {{}, {"TOP_DOWN"}, {"BYTE_ALIGN", "ANY_SIZE"}, {"ANY_SIZE", "ALPHA"},
     BMPREAD_FLAGS}

\* Small images of every format.
SmallInputs ==
    {Input(FormatFile(w, h, fmt), flags) :
        w \in 1..MaxDim, h \in ((-MaxDim)..MaxDim) \ {0}, fmt \in Formats,
        flags \in FlagSets}

\* Every pair of a compression and a bit depth, on a 2 x 2 image.
Compressions == {BitsOfNat(c) : c \in 0..4} \cup {{31}}

Depths == {0, 1, 2, 4, 8, 15, 16, 24, 32, 64}

FormatInputs ==
    {Input(BmpFile(2, h, bits, comp,
                   IF comp # COMPRESSION_BITFIELDS THEN <<>>
                   ELSE IF bits = 16 THEN Masks565 ELSE Masks888,
                   BMP3_INFO_SIZE), flags) :
        h \in {-2, 2}, bits \in Depths, comp \in Compressions,
        flags \in {{}, {"ALPHA"}}}

\* Widths and heights around every limit of the size arithmetic.
Widths ==
    {INT32_MIN, -1, 0, 1, 2, 3,
     SIZE_MAX \div 32, SIZE_MAX \div 32 + 1,
     SIZE_MAX \div 24, SIZE_MAX \div 24 + 1,
     (SIZE_MAX + 1) \div 8,
     SIZE_MAX \div 4, SIZE_MAX \div 4 + 1,
     SIZE_MAX \div 3, SIZE_MAX \div 3 + 1,
     SIZE_MAX, SIZE_MAX + 1, INT32_MAX}

Heights ==
    {INT32_MIN, -INT32_MAX, -(SIZE_MAX + 1), -3, -1, 0, 1, 2, 3,
     (SIZE_MAX + 1) \div 16, (SIZE_MAX + 1) \div 8, SIZE_MAX \div 3,
     SIZE_MAX, SIZE_MAX + 1, INT32_MAX}

DimInputs ==
    {Input(FormatFile(w, h, fmt), flags) :
        w \in Widths, h \in Heights,
        fmt \in {x \in Formats : x.bits \in {1, 24, 32}},
        flags \in {{}, {"BYTE_ALIGN"}, {"ANY_SIZE", "ALPHA"}}}

\* Damaged files: a file that cannot be opened, wrong magic bytes, an info
\* block that is too small, too large for a long or longer than the file
\* holds, a pixel-data offset off the file, and files cut short at every
\* field of the header, in the masks, in the palette and in the pixel data.
Damaged(f) ==
    {[f EXCEPT !.exists = FALSE],
     [f EXCEPT !.magic = <<66, 66>>], [f EXCEPT !.magic = <<77, 77>>],
     [f EXCEPT !.info_size = BitsOfNat(12)],
     [f EXCEPT !.info_size = BitsOfNat(39)],
     [f EXCEPT !.info_size = BitsOfNat(124)],
     [f EXCEPT !.info_size = f.info_size \cup {31}],
     [f EXCEPT !.info_size = BitsOfNat(LONG_MAX - 13)],
     [f EXCEPT !.data_offset = {}],
     [f EXCEPT !.data_offset = f.data_offset \cup {31}],
     [f EXCEPT !.data_offset = BitsOfNat(LONG_MAX)]}
    \cup {[f EXCEPT !.len = n] :
            n \in {0, 1, 2, 5, 9, 13, 17, 21, 25, 27, 29, 33, 37, 41, 45, 49,
                   53, 57, 61, 65, 69} \cup
                  {k \in {PaletteOffset(f) + 3, PixelOffset(f) - 1,
                          PixelOffset(f), f.len - 1} : k >= 0 /\ k < f.len}}

DamagedInputs ==
    {Input(d, flags) :
        d \in UNION {Damaged(FormatFile(2, 2, fmt)) : fmt \in Formats}
              \cup Damaged(BmpFile(2, -2, 32, COMPRESSION_BITFIELDS,
                                   Masks8888, 56)),
        flags \in {{}, {"ALPHA", "TOP_DOWN"}}}

NullFile == [name |-> "NULL"]

\* A null file name or a null descriptor pointer.
NullInputs ==
    {[file |-> NullFile, flags |-> {}, out |-> "bmp"],
     [file |-> NullFile, flags |-> {}, out |-> "NULL"],
     [file |-> FormatFile(2, 2, CHOOSE x \in Formats : x.bits = 24),
      flags |-> {}, out |-> "NULL"]}

\* One call on a small image, a damaged file or a null argument.
LoadInputs == SmallInputs \cup DamagedInputs \cup NullInputs

\* The calls of a caller that loads and releases several times.
SeriesInputs ==
    {Input(FormatFile(2, h, fmt), {}) :
        h \in {-1, 2}, fmt \in {x \in Formats : x.bits \in {8, 16, 24}}}
    \cup {Input(FormatFile(3, 2, fmt), flags) :
            fmt \in {x \in Formats : x.bits = 24},
            flags \in {{}, {"ANY_SIZE"}}}
    \cup {Input(d, {}) :
            d \in LET f == FormatFile(2, 2, CHOOSE x \in Formats : x.bits = 8)
                  IN  {[f EXCEPT !.exists = FALSE], [f EXCEPT !.len = 20],
                       [f EXCEPT !.len = f.len - 1]}}
    \cup NullInputs

(***************************************************************************)
(* The arguments IsPowerOf2 and GetLineLength are applied to on their own. *)
(***************************************************************************)

\* int32_t values around every power of two, of both signs.
PowerInputs ==
    {0, INT32_MAX, INT32_MIN, -INT32_MAX}
    \cup UNION {{Pow2(k), Pow2(k) + 1, Pow2(k) - 1,
                 -Pow2(k), -Pow2(k) - 1, 1 - Pow2(k)} : k \in 0..30}
    \cup {Pow2(k) + Pow2(j) : k \in {4, 17, 29}, j \in {0, 3, 16}}

BitDepths == {1, 2, 3, 4, 8, 16, 24, 32}

\* size_t widths: the small ones and those around SIZE_MAX / bpp.
LineWidths ==
    {w \in (1..40) \cup {SIZE_MAX \div b + d : b \in BitDepths, d \in (-2)..2}
           \cup {SIZE_MAX - 32, SIZE_MAX - 1} : w >= 1 /\ w <= SIZE_MAX}

(***************************************************************************)
(* The specifications.  Spec: a caller that calls bmpread up to MaxCalls   *)
(* times on one descriptor and bmpread_free at any time between the calls. *)
(* SpecLoad, SpecFormats, SpecSizes: one bmpread call on a small image or  *)
(* a damaged file, on every format, on every extreme geometry, followed by *)
(* any number of bmpread_free calls.  SpecPower, SpecLine: IsPowerOf2 and  *)
(* GetLineLength applied to one argument.                                  *)
(***************************************************************************)

Idle ==
    /\ pc = "idle"
    /\ args = NoArgs
    /\ ctx = ZeroContext
    /\ success = FALSE
    /\ note = NoNote
    /\ stream = ClosedStream
    /\ heap = <<>>
    /\ bmp = ZeroBmp
    /\ calls = 0

Init ==
    /\ Idle
    /\ probe = NoProbe

Load ==
    /\ calls < MaxCalls
    /\ \E in \in SeriesInputs : BmpreadEnter(in.file, in.flags, in.out)

LoadAny ==
    /\ calls < 1
    /\ \E in \in LoadInputs : BmpreadEnter(in.file, in.flags, in.out)

LoadFormat ==
    /\ calls < 1
    /\ \E in \in FormatInputs : BmpreadEnter(in.file, in.flags, in.out)

LoadSized ==
    /\ calls < 1
    /\ \E in \in DimInputs : BmpreadEnter(in.file, in.flags, in.out)

Release == \E p_bmp \in {"bmp", "NULL"} : bmpread_free(p_bmp)

Next ==
    \/ Load
    \/ ValidateStep
    \/ DecodeStep
    \/ Publish
    \/ FreeContextStep
    \/ Return
    \/ Release

Spec == Init /\ [][Next]_vars

\* A well-formed file of a geometry wider than the small images.
WideFile(width, height, fmt, seed) ==
    LET f == FormatFile(width, height, fmt)
        n == (((width * fmt.bits + 31) \div 32) * 4)
                 * (IF height < 0 THEN -height ELSE height)
    IN  [f EXCEPT !.len = PixelOffset(f) + n,
                  !.file_size = BitsOfNat(PixelOffset(f) + n),
                  !.seed = seed]

\* Palette images up to 10 pixels wide: more than one byte of a 1-bit row,
\* more than four of a 4-bit row.
PaletteInputs ==
    {Input(WideFile(width, height, fmt, seed), flags) :
        width \in {1, 2, 3, 9, 10}, height \in {1, -2},
        fmt \in {x \in Formats : x.bits \in {1, 4, 8}}, seed \in {1, 90},
        flags \in {{"ANY_SIZE"}, {"ANY_SIZE", "ALPHA"},
                   {"ANY_SIZE", "BYTE_ALIGN", "TOP_DOWN"}}}

LoadPalette ==
    /\ calls < 1
    /\ \E in \in PaletteInputs : BmpreadEnter(in.file, in.flags, in.out)

NextPalette ==
    \/ LoadPalette
    \/ ValidateStep
    \/ DecodeStep
    \/ Publish
    \/ FreeContextStep
    \/ Return
    \/ Release

SpecPalette == Init /\ [][NextPalette]_vars

\* Channel masks with an alpha mask of 8 bits, of 1 bit, of 4 bits, of 5
\* bits, and with none.
AlphaMaskSets ==
    {Masks8888,
     <<Bits(10, 14), Bits(5, 9), Bits(0, 4), {15}>>,
     <<Bits(8, 11), Bits(4, 7), Bits(0, 3), Bits(12, 15)>>,
     <<Bits(11, 15), Bits(6, 10), {5}, Bits(0, 4)>>,
     <<Bits(11, 15), Bits(5, 10), Bits(0, 4), {}>>}

\* BITFIELDS images whose file holds four mask words, declared with an info
\* block of 40 bytes, of 41 and of 56.
AlphaInputs ==
    {Input([BmpFile(width, height, bits, COMPRESSION_BITFIELDS, masks,
                    info_size) EXCEPT !.seed = seed], flags) :
        width \in {1, 2}, height \in {1, -2}, bits \in {16, 32},
        masks \in AlphaMaskSets, info_size \in {BMP3_INFO_SIZE, 41, 56},
        seed \in {1, 90}, flags \in {{"ALPHA"}, {"ALPHA", "TOP_DOWN"}, {}}}

LoadAlpha ==
    /\ calls < 1
    /\ \E in \in AlphaInputs : BmpreadEnter(in.file, in.flags, in.out)

NextAlpha ==
    \/ LoadAlpha
    \/ ValidateStep
    \/ DecodeStep
    \/ Publish
    \/ FreeContextStep
    \/ Return
    \/ Release

SpecAlpha == Init /\ [][NextAlpha]_vars

\* A load with Decode taken one scan line at a time.  bmpread runs without
\* waiting for anything, so each step of Decode that can be taken is taken.
RowFiles ==
    UNION {{f, [f EXCEPT !.len = f.len - 1],
            [f EXCEPT !.len = PixelOffset(f)],
            [f EXCEPT !.len = PixelOffset(f) + 5],
            [f EXCEPT !.data_offset = f.data_offset \cup {31}]} :
              f \in {FormatFile(width, height, fmt) :
                        width \in {1, 2},
                        height \in ((-MaxDim)..MaxDim) \ {0},
                        fmt \in Formats}}

\* Small images of every format, whole and cut short in the pixel data.
RowInputs ==
    {Input(f, flags) : f \in RowFiles, flags \in {{"ANY_SIZE"}, {"TOP_DOWN"}}}

LoadRows ==
    /\ calls < 1
    /\ \E in \in RowInputs : BmpreadEnter(in.file, in.flags, in.out)

NextRows ==
    \/ LoadRows
    \/ ValidateStep
    \/ DecodeEnter
    \/ DecodeRow
    \/ DecodeLeave
    \/ Publish
    \/ FreeContextStep
    \/ Return
    \/ Release

SpecRows ==
    /\ Init
    /\ [][NextRows]_vars
    /\ WF_vars(DecodeEnter \/ DecodeRow \/ DecodeLeave)

\* Red, green, blue and alpha masks of BITFIELDS images: the usual ones,
\* masks that overlap, masks with a gap, masks above bit 15, one mask of all
\* 32 bits, and none at all.
MaskSets ==
    {Masks8888,
     <<Bits(11, 15), Bits(5, 10), Bits(0, 4), {}>>,
     <<Bits(10, 14), Bits(5, 9), Bits(0, 4), {15}>>,
     <<Bits(20, 24), Bits(26, 30), Bits(8, 12), {31}>>,
     <<Bits(8, 23), Bits(8, 15), Bits(0, 7), {}>>,
     <<Bits(10, 14), Bits(5, 9), Bits(0, 4), Bits(14, 15)>>,
     <<Bits(12, 15) \cup Bits(4, 7), Bits(8, 11), Bits(0, 3), {}>>,
     <<Bits(10, 14), Bits(5, 9), Bits(0, 4), {15, 31}>>,
     <<BitPositions, {}, {}, {}>>,
     <<{}, {}, {}, {}>>}

\* BITFIELDS images of 16 and 32 bits: with a 56-byte info block that holds
\* the four masks, and with a 40-byte one followed by the first three.
MaskInputs ==
    {Input(BmpFile(width, height, bits, COMPRESSION_BITFIELDS,
                   IF info_size = BMP3_INFO_SIZE THEN SubSeq(masks, 1, 3)
                   ELSE masks, info_size), flags) :
        width \in {1, 2}, height \in {1, -2}, bits \in {16, 32},
        masks \in MaskSets, info_size \in {BMP3_INFO_SIZE, 56},
        flags \in {{}, {"ALPHA", "ANY_SIZE"}}}

LoadMasked ==
    /\ calls < 1
    /\ \E in \in MaskInputs : BmpreadEnter(in.file, in.flags, in.out)

NextMasks ==
    \/ LoadMasked
    \/ ValidateStep
    \/ DecodeStep
    \/ Publish
    \/ FreeContextStep
    \/ Return
    \/ Release

SpecMasks == Init /\ [][NextMasks]_vars

NextLoad ==
    \/ LoadAny
    \/ ValidateStep
    \/ DecodeStep
    \/ Publish
    \/ FreeContextStep
    \/ Return
    \/ Release

SpecLoad == Init /\ [][NextLoad]_vars

NextFormats ==
    \/ LoadFormat
    \/ ValidateStep
    \/ DecodeStep
    \/ Publish
    \/ FreeContextStep
    \/ Return
    \/ Release

SpecFormats == Init /\ [][NextFormats]_vars

NextSizes ==
    \/ LoadSized
    \/ ValidateStep
    \/ DecodeStep
    \/ Publish
    \/ FreeContextStep
    \/ Return
    \/ Release

SpecSizes == Init /\ [][NextSizes]_vars

\* IsPowerOf2(i) for an int32_t i, as Validate (547, 551) and the test call it.
InitPower ==
    /\ Idle
    /\ \E i \in PowerInputs :
         probe = [fn |-> "IsPowerOf2", arg |-> <<i>>, done |-> FALSE, out |-> 0]

CallIsPowerOf2 ==
    /\ probe.fn = "IsPowerOf2"
    /\ ~probe.done
    /\ probe' = [probe EXCEPT !.done = TRUE,
                   !.out = IF IsPowerOf2(ToUint32(probe.arg[1])) THEN 1 ELSE 0]
    /\ UNCHANGED <<pc, args, ctx, success, note, stream, heap, bmp, calls>>

SpecPower == InitPower /\ [][CallIsPowerOf2]_vars

InitLine ==
    /\ Idle
    /\ \E width \in LineWidths, bpp \in BitDepths :
         probe = [fn |-> "GetLineLength", arg |-> <<width, bpp>>,
                  done |-> FALSE, out |-> 0]

CallGetLineLength ==
    /\ probe.fn = "GetLineLength"
    /\ ~probe.done
    /\ probe' = [probe EXCEPT !.done = TRUE,
                   !.out = GetLineLength(probe.arg[1], probe.arg[2])]
    /\ UNCHANGED <<pc, args, ctx, success, note, stream, heap, bmp, calls>>

SpecLine == InitLine /\ [][CallGetLineLength]_vars

(***************************************************************************)
(* The primitive readers on their own: up to MaxReads reads in a row from  *)
(* a stream at its start.  probe holds the file, the stream position, and  *)
(* of the last read its reader, where it started and what it returned.     *)
(***************************************************************************)

MaxReads == 3

Readers ==
    {"ReadUint8", "ReadLittleUint16", "ReadLittleInt32", "ReadLittleUint32"}

\* 0x04030201, 0x80706050, 0xFFFFFFFF, 0x7FFFFFFF and 0.
Words ==
    {BitsOfNat(67305985), ToUint32(-2140118960), ToUint32(-1),
     BitsOfNat(INT32_MAX), {}}

\* Files whose bytes 2..9 hold two of the words, cut at several lengths.
ReadFiles ==
    {[FormatFile(2, 2, CHOOSE x \in Formats : x.bits = 24)
         EXCEPT !.file_size = a, !.reserved = b, !.len = n] :
        a \in Words,
        b \in {ToUint32(-2140118960), BitsOfNat(67305985), {31}},
        n \in {0, 1, 2, 4, 6, 9, 10, 14}}

InitRead ==
    /\ Idle
    /\ \E f \in ReadFiles :
         probe = [fn |-> "Read", file |-> f, pos |-> 0, reads |-> 0,
                  reader |-> "none", from |-> 0, ok |-> TRUE, value |-> 0]

CallReader ==
    /\ probe.fn = "Read"
    /\ probe.reads < MaxReads
    /\ \E reader \in Readers :
       \E r \in {ReadField(StructField("dest", 0, reader),
                           probe.file, probe.pos)} :
           probe' = [probe EXCEPT !.reads = @ + 1, !.reader = reader,
                                  !.from = probe.pos, !.pos = r.pos,
                                  !.ok = r.ok, !.value = r.value]
    /\ UNCHANGED <<pc, args, ctx, success, note, stream, heap, bmp, calls>>

SpecRead == InitRead /\ [][CallReader]_vars

(***************************************************************************)
(* CreateBitField on its own, for every mask that is one run of set bits,  *)
(* every mask of two separate bits, some masks of two runs, and zero.      *)
(***************************************************************************)

\* The masks of one run of set bits: bits low..high.
RunMasks == {low..high : low \in BitPositions, high \in BitPositions} \ {{}}

FieldMasks ==
    RunMasks
        \cup {{low, high} : low \in BitPositions, high \in BitPositions}
        \cup {BitsOfNat(15790080), BitsOfNat(61455), {0, 1, 30, 31}}
        \cup {{}}

InitField ==
    /\ Idle
    /\ \E bit_field_mask \in FieldMasks :
         probe = [fn |-> "CreateBitField", arg |-> <<bit_field_mask>>,
                  done |-> FALSE, out |-> 0]

CallCreateBitField ==
    /\ probe.fn = "CreateBitField"
    /\ ~probe.done
    /\ probe' = [probe EXCEPT !.done = TRUE,
                              !.out = CreateBitField(probe.arg[1])]
    /\ UNCHANGED <<pc, args, ctx, success, note, stream, heap, bmp, calls>>

SpecField == InitField /\ [][CallCreateBitField]_vars

(***************************************************************************)
(* Decode24 on its own: rows of 1..MaxDim pixels, decoded with and without *)
(* the alpha channel, whatever palette and bit fields the context holds.   *)
(***************************************************************************)

\* A row of 24-bit pixels as fread leaves it in the scratch buffer.
Row24(width, seed) ==
    [j \in 0..((((width * 24 + 31) \div 32) * 4) - 1) |->
        PixelByte([seed |-> seed], j)]

\* Contexts as Validate leaves them for a 24-bit image of this width, and
\* the same holding the bit fields of a 32-bit image.
Contexts24(width, flags) ==
    {[ZeroContext EXCEPT
          !.flags = flags, !.info.width = width, !.info.bits = 24,
          !.out_channel_count = IF "ALPHA" \in flags THEN 4 ELSE 3,
          !.bit_fields = fields] :
        fields \in {ZeroContext.bit_fields,
                    [c \in 1..4 |-> CreateBitField(Masks8888[c]).field]}}

\* No palette, and a palette of two entries.
Palettes24 ==
    {<<>>, [i \in 0..1 |-> [blue |-> 10 + i, green |-> 20 + i,
                            red |-> 30 + i, unused |-> 0]]}

InitDecode24 ==
    /\ Idle
    /\ \E width \in 1..MaxDim, seed \in {1, 13, 77, 200},
          flags \in {{}, {"ALPHA"}}, palette \in Palettes24 :
       \E p_ctx \in Contexts24(width, flags) :
             probe = [fn |-> "Decode24",
                      arg |-> <<Row24(width, seed), palette, p_ctx>>,
                      done |-> FALSE, out |-> <<>>]

CallDecode24 ==
    /\ probe.fn = "Decode24"
    /\ ~probe.done
    /\ \E build \in Builds :
         probe' = [probe EXCEPT
                      !.done = TRUE,
                      !.out = Decode24(probe.arg[3].info.width
                                           * probe.arg[3].out_channel_count,
                                       probe.arg[1], probe.arg[2],
                                       probe.arg[3], build)]
    /\ UNCHANGED <<pc, args, ctx, success, note, stream, heap, bmp, calls>>

SpecDecode24 == InitDecode24 /\ [][CallDecode24]_vars

(***************************************************************************)
(* bmpread and bmpread_free.  At pc = "return" the call has run FreeContext*)
(* and is about to return `success`; args holds what it was called with.   *)
(***************************************************************************)

Abs(n) == IF n < 0 THEN -n ELSE n

\* bits rounded up to the next multiple of 32.
Padded(bits) == ((bits + 31) \div 32) * 32

\* width * bpp and its padded value do not exceed SIZE_MAX.
FitsPadded(width, bpp) ==
    /\ bpp >= 1
    /\ width <= SIZE_MAX \div bpp
    /\ Padded(width * bpp) <= SIZE_MAX

Returning == pc = "return" /\ args.bmp_file.name = "file"

OutChannels == IF "ALPHA" \in args.flags THEN 4 ELSE 3

\* The length of an output line of the image being loaded.
OutLineLen ==
    IF "BYTE_ALIGN" \in args.flags THEN args.bmp_file.width * OutChannels
    ELSE Padded(args.bmp_file.width * OutChannels * 8) \div 8

\* C1: when a bmpread call returns failure, whatever step failed, the stream
\* is closed if it was opened, the palette, the scratch buffer and the output
\* buffer are each freed if they were allocated, and the caller's descriptor
\* does not reference the output buffer.
FailureReleasesAll ==
    (pc = "return" /\ ~success)
        => /\ ~stream.open
           /\ ctx.palette # NULL => heap[ctx.palette].frees = 1
           /\ ctx.file_data # NULL => heap[ctx.file_data].frees = 1
           /\ ctx.data_out # NULL => /\ heap[ctx.data_out].frees = 1
                                     /\ bmp.data # ctx.data_out
           /\ bmp.data = NULL

\* A call that allocated all three buffers has failed on a short pixel row.
FailureAfterAllocating ==
    /\ pc = "return" /\ ~success
    /\ note.at = "short_read"
    /\ ctx.palette # NULL /\ ctx.file_data # NULL /\ ctx.data_out # NULL
    /\ ctx.fp # NULL

\* C2: when a bmpread call returns success, the descriptor holds the file's
\* declared width, the absolute value of its declared height (> 0), the
\* flags passed in and the output buffer, of lines x out_line_len bytes and
\* still allocated; the stream is closed, the palette and the scratch buffer
\* are freed.
SuccessDescriptor ==
    (Returning /\ success)
        => /\ bmp.width = args.bmp_file.width
           /\ bmp.height = Abs(args.bmp_file.height)
           /\ bmp.height > 0
           /\ bmp.flags = args.flags
           /\ bmp.data # NULL
           /\ bmp.data = ctx.data_out
           /\ Live(bmp.data)
           /\ heap[bmp.data].kind = "data_out"
           /\ heap[bmp.data].size = bmp.height * OutLineLen
           /\ ~stream.open
           /\ ctx.palette # NULL => heap[ctx.palette].frees = 1
           /\ heap[ctx.file_data].frees = 1

\* A palette image with a negative height has loaded with an alpha channel.
SuccessWithPalette ==
    /\ Returning /\ success
    /\ args.bmp_file.bits = 8
    /\ args.bmp_file.height < 0
    /\ "ALPHA" \in args.flags
    /\ ctx.palette # NULL

\* C3: after bmpread_free the descriptor is all-zero; bmpread_free on an
\* all-zero descriptor or on a null pointer frees nothing and changes
\* nothing; so over any sequence of load and release calls no output buffer
\* is freed more than once.  (A step from idle to idle is a bmpread_free.)
FreeIsIdempotent ==
    /\ [][(pc = "idle" /\ pc' = "idle")
            => /\ bmp' = ZeroBmp \/ (bmp' = bmp /\ heap' = heap)
               /\ bmp = ZeroBmp => (bmp' = bmp /\ heap' = heap)]_vars
    /\ [](\A b \in DOMAIN heap :
            heap[b].kind = "data_out" => heap[b].frees <= 1)

\* The image of a successful call has been released.
ReleasedAfterSuccess ==
    /\ pc = "idle" /\ success
    /\ bmp = ZeroBmp
    /\ \E b \in DOMAIN heap : heap[b].kind = "data_out" /\ heap[b].frees = 1

\* The image loaded is an uncompressed 24-bit one.
Loaded24 ==
    /\ Returning /\ success
    /\ args.bmp_file.bits = 24
    /\ args.bmp_file.compression = COMPRESSION_NONE

\* Every pixel of every row of the file is in the output as R, G, B, the
\* rows in the order of the file or in the reverse order.
Rows24(reversed) ==
    LET f     == args.bmp_file
        lines == Abs(f.height)
        from  == U32Value(f.data_offset)
        len   == Padded(f.width * 24) \div 8
        To(r) == IF reversed THEN lines - 1 - r ELSE r
    IN  \A r \in 0..(lines - 1), x \in 0..(f.width - 1), c \in 0..2 :
            heap[bmp.data].data[To(r) * OutLineLen + x * OutChannels + c]
                = FileByte(f, from + r * len + 3 * x + (2 - c))

\* C4 as amended: loading a valid uncompressed 24-bit bitmap yields, for
\* every pixel, the file's B, G, R bytes reordered to R, G, B, with the
\* output rows in the order of the file's rows when the file is bottom-up
\* (height > 0) and TOP_DOWN is not given or the file is top-down
\* (height < 0) and TOP_DOWN is given, and in the reverse order otherwise.
Decode24RowOrder ==
    Loaded24
        => Rows24((args.bmp_file.height < 0) # ("TOP_DOWN" \in args.flags))

\* A bottom-up 2 x 2 image has loaded without TOP_DOWN.
Loaded24BottomUp ==
    /\ Loaded24
    /\ args.bmp_file.width = 2 /\ args.bmp_file.height = 2
    /\ "TOP_DOWN" \notin args.flags

\* C4: loading a valid uncompressed 24-bit bitmap yields, for every pixel,
\* the file's B, G, R bytes reordered to R, G, B, with the output rows in the
\* reverse of the file's row order when no orientation flag is given and in
\* the order of the file's rows when TOP_DOWN is given.
Decode24ReversedUnlessTopDown ==
    Loaded24 => Rows24("TOP_DOWN" \notin args.flags)

\* The supported (compression, bits-per-pixel) pairs.
SupportedPairs ==
    {<<BitsOfNat(0), 1>>, <<BitsOfNat(0), 4>>, <<BitsOfNat(0), 8>>,
     <<BitsOfNat(0), 24>>, <<BitsOfNat(3), 16>>, <<BitsOfNat(3), 32>>}

Unsupported ==
    /\ pc # "idle" /\ args.bmp_file.name = "file" /\ args.bmp_file.exists
    /\ <<args.bmp_file.compression, args.bmp_file.bits>> \notin SupportedPairs

\* C5: bmpread can succeed only if (compression, bits-per-pixel) is one of
\* (0,1), (0,4), (0,8), (0,24), (3,16), (3,32); for every other pair it fails
\* and during the call no palette, scratch or output buffer is allocated.
OnlySupportedFormats ==
    Unsupported
        => /\ ~success
           /\ heap = <<>>
           /\ ctx.palette = NULL /\ ctx.file_data = NULL /\ ctx.data_out = NULL

\* A call on an RLE8 file has failed at the format test.
RejectedRLE8 ==
    /\ Unsupported /\ pc = "return"
    /\ args.bmp_file.compression = BitsOfNat(1)
    /\ args.bmp_file.bits = 8
    /\ note.at = "format"

\* C6: whenever the scratch or the output buffer is allocated, file_line_len
\* is the unwrapped ceil(width * bpp / 32) * 4, out_line_len its unwrapped
\* value and the output allocation the unwrapped lines * out_line_len; where
\* width * bpp, its padded value, width * channel_count or lines *
\* out_line_len exceeds SIZE_MAX, bmpread fails.
SizesNeverWrap ==
    (pc # "idle" /\ args.bmp_file.name = "file")
        => /\ ctx.file_data # NULL
                => /\ args.bmp_file.width >= 1
                   /\ FitsPadded(args.bmp_file.width, args.bmp_file.bits)
                   /\ ctx.file_line_len
                          = Padded(args.bmp_file.width * args.bmp_file.bits)
                                \div 8
                   /\ heap[ctx.file_data].size = ctx.file_line_len
                   /\ args.bmp_file.width <= SIZE_MAX \div OutChannels
                   /\ "BYTE_ALIGN" \notin args.flags
                          => FitsPadded(args.bmp_file.width, OutChannels * 8)
                   /\ ctx.out_line_len = OutLineLen
                   /\ ctx.out_line_len > 0
           /\ ctx.data_out # NULL
                => /\ ctx.file_data # NULL
                   /\ args.bmp_file.height # INT32_MIN
                   /\ Abs(args.bmp_file.height) <= SIZE_MAX \div ctx.out_line_len
                   /\ heap[ctx.data_out].size
                          = Abs(args.bmp_file.height) * ctx.out_line_len
           /\ (pc = "return" /\ success) => ctx.data_out # NULL

\* A call has failed because lines * out_line_len exceeds SIZE_MAX, with
\* the scratch buffer allocated.
OutputSizeRejected ==
    /\ Returning /\ ~success
    /\ note.at = "out_size"
    /\ ctx.file_data # NULL
    /\ args.bmp_file.height # INT32_MIN
    /\ Abs(args.bmp_file.height) > SIZE_MAX \div ctx.out_line_len

\* n = 2^k for some k.
PowerOfTwo(n) == \E k \in 0..30 : n = Pow2(k)

\* The file holds all the pixel data it declares.
Complete(f) ==
    f.width \in 1..MaxDim /\ f.height \in ((-MaxDim)..MaxDim) \ {0}

\* C7: without ANY_SIZE bmpread fails whenever the declared width or the
\* absolute line count is not a power of two; with ANY_SIZE the test is not
\* made, and a file that passes every other check (here: a complete file of
\* a supported format, the allocator granting every request) loads whatever
\* its positive width and line count.
PowerOfTwoUnlessAnySize ==
    Returning
        => /\ ("ANY_SIZE" \notin args.flags
                 /\ (~PowerOfTwo(args.bmp_file.width)
                       \/ (args.bmp_file.height # INT32_MIN
                             /\ ~PowerOfTwo(Abs(args.bmp_file.height)))))
                => ~success
           /\ "ANY_SIZE" \in args.flags
                => note.at \notin {"width_power", "lines_power"}
           /\ ("ANY_SIZE" \in args.flags /\ Complete(args.bmp_file))
                => \/ success
                   \/ note.at \in {"palette_malloc", "file_data_malloc",
                                   "data_out_malloc"}

\* A 3 x 3 image has loaded with ANY_SIZE.
LoadedAnySize ==
    /\ Returning /\ success
    /\ "ANY_SIZE" \in args.flags
    /\ args.bmp_file.width = 3
    /\ Abs(args.bmp_file.height) = 3

(***************************************************************************)
(* IsPowerOf2 and GetLineLength on their own.                              *)
(***************************************************************************)

\* The int32_t i holds the bits of a power of two: 2^0 .. 2^30, or 2^31,
\* whose bit pattern is that of INT32_MIN.
HoldsPowerOf2(i) == i = INT32_MIN \/ \E k \in 0..30 : i = Pow2(k)

IsPowerOf2NegativePowers ==
    (probe.fn = "IsPowerOf2" /\ probe.done /\ probe.arg[1] < 0)
        => ((probe.out = 1)
               <=> (probe.arg[1] = INT32_MIN
                      \/ \E k \in 0..30 : probe.arg[1] = -Pow2(k)))

\* C10: for width >= 1 and bpp >= 1 GetLineLength returns width * bpp rounded
\* up to the next multiple of 32, divided by 8 (a positive multiple of 4, at
\* least ceil(width * bpp / 8) and less than that plus 4), where the product
\* and the rounded product fit size_t, and 0 exactly where one does not.
GetLineLengthPadded ==
    (probe.fn = "GetLineLength" /\ probe.done)
        => LET bits   == probe.arg[1] * probe.arg[2]
               padded == ((bits + 31) \div 32) * 32
               bytes  == (bits + 7) \div 8
           IN  IF bits > SIZE_MAX \/ padded > SIZE_MAX THEN probe.out = 0
               ELSE /\ probe.out = padded \div 8
                    /\ probe.out > 0
                    /\ probe.out % 4 = 0
                    /\ probe.out >= bytes
                    /\ probe.out < bytes + 4

\* GetLineLength has returned 0 for a product that fits size_t and whose
\* padding does not.
GetLineLengthPadOverflow ==
    /\ probe.fn = "GetLineLength" /\ probe.done
    /\ probe.arg[1] * probe.arg[2] <= SIZE_MAX
    /\ probe.arg[1] * probe.arg[2] > SIZE_MAX - 31
    /\ probe.arg[1] * probe.arg[2] % 32 # 0
    /\ probe.out = 0

(***************************************************************************)
(* The primitive readers on their own.                                     *)
(***************************************************************************)

\* The number of bytes a reader reads.
ReaderBytes(reader) ==
    CASE reader = "ReadUint8" -> 1
      [] reader = "ReadLittleUint16" -> 2
      [] reader = "ReadLittleInt32" -> 4
      [] reader = "ReadLittleUint32" -> 4

\* Byte i of the file from where the last read started.
ReadByte(i) == FileByte(probe.file, probe.from + i)

\* b0 + 256 b1 + 65536 b2 + 2^24 b3 as a two's-complement 32-bit number.
SignedSum ==
    ReadByte(0) + 256 * ReadByte(1) + 65536 * ReadByte(2)
        + 16777216 * (IF ReadByte(3) >= 128 THEN ReadByte(3) - 256
                      ELSE ReadByte(3))

\* C11: a reader of N bytes (N = 1, 2, 4) on a stream with at least N bytes
\* left consumes exactly the N bytes b0..b(N-1) that follow the previous
\* read and yields the sum of b_i * 256^i, the signed reader as a two's
\* complement number; with fewer than N bytes left it reports failure.
ReadersLittleEndian ==
    (probe.fn = "Read" /\ probe.reads > 0)
        => IF probe.from + ReaderBytes(probe.reader) <= probe.file.len
           THEN /\ probe.ok
                /\ probe.pos = probe.from + ReaderBytes(probe.reader)
                /\ CASE probe.reader = "ReadUint8" ->
                            probe.value = ReadByte(0)
                     [] probe.reader = "ReadLittleUint16" ->
                            probe.value = ReadByte(0) + 256 * ReadByte(1)
                     [] probe.reader = "ReadLittleInt32" ->
                            probe.value = SignedSum
                     [] probe.reader = "ReadLittleUint32" ->
                            \A i \in 0..3 :
                                LittleByte(probe.value, i) = ReadByte(i)
           ELSE ~probe.ok

\* After two bytes, a read of 0x04030201 and then a signed read of
\* 0x80706050 as 0x80706050 - 2^32.
ReadTwoWords ==
    /\ probe.fn = "Read" /\ probe.reads = 3
    /\ probe.file.file_size = BitsOfNat(67305985)
    /\ probe.reader = "ReadLittleInt32"
    /\ probe.from = 6 /\ probe.pos = 10
    /\ probe.ok /\ probe.value = -2140118960

(***************************************************************************)
(* CreateBitField on its own.                                              *)
(***************************************************************************)

\* The set bits of the mask form one run.
Contiguous(mask) ==
    mask # {} /\ \A low \in mask, high \in mask : \A k \in low..high : k \in mask

\* The position of the lowest set bit of a nonzero mask.
LowestBit(mask) == CHOOSE low \in mask : \A k \in mask : low <= k

\* C12: for every nonzero 32-bit mask CreateBitField succeeds exactly when
\* the set bits form one contiguous run, and then records shift = position
\* of the lowest set bit and count = number of set bits (0x00FF0000 gives
\* shift 16, count 8; 0x0000F000 gives shift 12, count 4; 0x00F0F000 fails);
\* for a zero mask it succeeds with shift 0, count 0 and multiplier 0.
CreateBitFieldContiguous ==
    (probe.fn = "CreateBitField" /\ probe.done)
        => IF probe.arg[1] = {}
           THEN /\ probe.out.ok
                /\ probe.out.field.bit_shift = 0
                /\ probe.out.field.bit_count = 0
                /\ probe.out.field.value_multiplier.num = 0
           ELSE /\ probe.out.ok <=> Contiguous(probe.arg[1])
                /\ probe.out.ok =>
                     /\ probe.out.field.bit_shift = LowestBit(probe.arg[1])
                     /\ probe.out.field.bit_count = Cardinality(probe.arg[1])

\* The same for every mask but 0xFFFFFFFF: what CreateBitField does for the
\* masks of at most 31 set bits.
CreateBitFieldContiguousBelow32 ==
    (probe.fn = "CreateBitField" /\ probe.arg[1] # BitPositions)
        => CreateBitFieldContiguous

\* CreateBitField has refused the mask 0xFFFFFFFF, one run of 32 bits.
CreateBitFieldRefusesAllBits ==
    /\ probe.fn = "CreateBitField" /\ probe.done
    /\ probe.arg[1] = BitPositions
    /\ ~probe.out.ok
    /\ probe.out.field.bit_count = 32

(***************************************************************************)
(* The channel masks of BITFIELDS images.                                  *)
(***************************************************************************)

\* No gap between the set bits of the mask.
NoGap(mask) == \A low \in mask, high \in mask : \A k \in low..high : k \in mask

\* The four channel masks of a file: those its info block holds.
FileMasks(f) == [c \in 1..4 |-> IF c <= Len(f.masks) THEN f.masks[c] ELSE {}]

PairwiseDisjoint(masks) ==
    \A c \in 1..4, d \in 1..4 : c # d => masks[c] \cap masks[d] = {}

TotalWidth(masks) ==
    Cardinality(masks[1]) + Cardinality(masks[2])
        + Cardinality(masks[3]) + Cardinality(masks[4])

WellFormedMasks(masks, bits) ==
    /\ PairwiseDisjoint(masks)
    /\ \A c \in 1..4 : NoGap(masks[c])
    /\ TotalWidth(masks) <= bits

\* C13: for a BITFIELDS image bmpread fails if two of the four channel masks
\* share a set bit, if a mask has a gap, or if the four bit counts add up to
\* more than the bits per pixel; so in every load that reaches decoding the
\* four masks are pairwise disjoint, each without a gap, and their total
\* width is at most the bits per pixel.
BitFieldMasksWellFormed ==
    /\ (Returning /\ args.bmp_file.compression = COMPRESSION_BITFIELDS
          /\ ~WellFormedMasks(FileMasks(args.bmp_file), args.bmp_file.bits))
         => ~success
    /\ (pc \in {"decode", "publish"}
          /\ ctx.info.compression = COMPRESSION_BITFIELDS)
         => /\ WellFormedMasks(ctx.info.masks, ctx.info.bits)
            /\ \A c \in 1..4 :
                 /\ ctx.bit_fields[c].bit_mask = ctx.info.masks[c]
                 /\ ctx.bit_fields[c].bit_count
                        = Cardinality(ctx.info.masks[c])

\* A load has failed on an alpha mask that shares bit 14 with the red one.
RejectedOverlappingMasks ==
    /\ Returning /\ ~success
    /\ note.at = "bit_fields"
    /\ FileMasks(args.bmp_file)[4] = Bits(14, 15)
    /\ ~PairwiseDisjoint(FileMasks(args.bmp_file))
    /\ \A c \in 1..4 : NoGap(FileMasks(args.bmp_file)[c])

(***************************************************************************)
(* Width, height and the number of lines.                                  *)
(***************************************************************************)

\* C14: bmpread fails for every file whose declared width is <= 0, whose
\* declared height is 0 or whose declared height is the least int32_t; in
\* every load that reaches decoding width > 0 and the number of lines is
\* |height|, with 1 <= lines <= 2^31 - 1.
DimensionsValid ==
    /\ (Returning /\ (\/ args.bmp_file.width <= 0
                      \/ args.bmp_file.height = 0
                      \/ args.bmp_file.height = INT32_MIN))
         => ~success
    /\ pc \in {"decode", "publish"}
         => /\ ctx.info.width = args.bmp_file.width
            /\ ctx.info.height = args.bmp_file.height
            /\ ctx.info.width > 0
            /\ ctx.info.height # INT32_MIN
            /\ ctx.lines = Abs(ctx.info.height)
            /\ 1 <= ctx.lines /\ ctx.lines <= INT32_MAX

\* A load of a file of height INT32_MIN has failed where the height is
\* negated.
RejectedLeastHeight ==
    /\ Returning /\ ~success
    /\ note.at = "negate"
    /\ args.bmp_file.height = INT32_MIN
    /\ args.bmp_file.width > 0

(***************************************************************************)
(* The layout of an output row.                                            *)
(***************************************************************************)

\* C15: the output channel count is 4 when ALPHA is set and 3 otherwise; the
\* output row length is width * channel count when BYTE_ALIGN is set, and
\* otherwise that product rounded up to the next multiple of 4, so without
\* BYTE_ALIGN every output row length is a multiple of 4.
OutputRowLayout ==
    pc \in {"decode", "publish"}
        => /\ ctx.out_channel_count = (IF "ALPHA" \in args.flags THEN 4 ELSE 3)
           /\ "BYTE_ALIGN" \in args.flags
                => ctx.out_line_len
                       = args.bmp_file.width * ctx.out_channel_count
           /\ "BYTE_ALIGN" \notin args.flags
                => /\ ctx.out_line_len
                        = ((args.bmp_file.width * ctx.out_channel_count + 3)
                               \div 4) * 4
                   /\ ctx.out_line_len % 4 = 0
           /\ heap[ctx.data_out].size = ctx.lines * ctx.out_line_len

\* An image 3 pixels wide is being decoded into byte-aligned rows of 9 bytes.
ByteAlignedRows ==
    /\ pc = "decode"
    /\ args.bmp_file.width = 3
    /\ "BYTE_ALIGN" \in args.flags /\ "ALPHA" \notin args.flags
    /\ ctx.out_line_len = 9

(***************************************************************************)
(* The order of the output rows, for every format.                         *)
(***************************************************************************)

\* The k-th scan line of the file being loaded, k = 0 for the first one read.
ScanLine(k) ==
    ReadLine(args.bmp_file,
             U32Value(args.bmp_file.data_offset) + k * ctx.file_line_len,
             ctx.file_line_len).row

\* The pixels of output row `row`: its first width * channel count bytes.
OutputRow(row) ==
    [j \in 0..(ctx.info.width * ctx.out_channel_count - 1) |->
        heap[ctx.data_out].data[row * ctx.out_line_len + j]]

\* Output row `row` holds the k-th scan line, decoded.
HoldsScanLine(row, k) ==
    \E build \in Builds :
        \A j \in 0..(ctx.info.width * ctx.out_channel_count - 1) :
            OutputRow(row)[j]
                = RunDecoder(ctx.info.width * ctx.out_channel_count,
                             ScanLine(k),
                             IF ctx.palette # NULL
                             THEN heap[ctx.palette].data ELSE <<>>,
                             ctx, build)[j + 1]

\* C16: in a successful decode the k-th scan line read from the file is
\* written to output row k when the height is negative and TOP_DOWN is set
\* or the height is positive and TOP_DOWN is not set, and to output row
\* lines - 1 - k otherwise: the output is bottom-up by default and top-down
\* with TOP_DOWN, whatever the sign of the height.
ScanLinePlacement ==
    pc = "publish"
        => \A k \in 0..(ctx.lines - 1) :
              IF (args.bmp_file.height < 0) = ("TOP_DOWN" \in args.flags)
              THEN HoldsScanLine(k, k)
              ELSE HoldsScanLine(ctx.lines - 1 - k, k)

\* A top-down file of three lines has been decoded without TOP_DOWN: its
\* first scan line is in output row 2, and is not what output row 0 holds.
DecodedTopDownFile ==
    /\ pc = "publish"
    /\ args.bmp_file.height = -3
    /\ "TOP_DOWN" \notin args.flags
    /\ HoldsScanLine(2, 0)
    /\ ~HoldsScanLine(0, 0)

(***************************************************************************)
(* The decode loop.                                                        *)
(***************************************************************************)

\* The file holds `lines` full scan lines of file_line_len bytes from its
\* data offset on.
HoldsAllLines ==
    /\ CanMakeLong(args.bmp_file.data_offset)
    /\ U32Value(args.bmp_file.data_offset) <= args.bmp_file.len
    /\ ctx.lines * ctx.file_line_len
           <= args.bmp_file.len - U32Value(args.bmp_file.data_offset)

\* Decode has returned: 1 on the way to publish, 0 with one of its notes.
DecodeReturned ==
    \/ pc = "publish"
    \/ pc = "free_context"
         /\ note.at \in {"stride", "depth", "offset_long", "short_read"}

\* The loop reads at most `lines` rows, full or short, and Decode returns 1
\* exactly when `lines` full rows were read, which is when the file holds
\* them; a short read makes Decode return 0 and the load fail.
DecodeCounts ==
    /\ pc = "decode_loop"
         => /\ note.rows <= ctx.lines
            /\ probe.reads = note.rows
    /\ DecodeReturned
         => /\ probe.reads <= ctx.lines
            /\ (pc = "publish") <=> (note.rows = ctx.lines)
            /\ (pc = "publish") <=> HoldsAllLines
            /\ note.at = "short_read" => probe.reads = note.rows + 1
    /\ (pc = "return" /\ note.at = "short_read") => ~success

\* C17: the decode loop always terminates, after at most `lines` row reads,
\* and Decode reports success if and only if exactly `lines` full rows of
\* file_line_len bytes were read and decoded; a short read before that makes
\* Decode report failure and the load fail.
DecodeLoopTerminates ==
    /\ []DecodeCounts
    /\ (pc = "decode") ~> DecodeReturned

\* Decode taken one scan line at a time leaves what Decode taken whole does.
RowsAgreeWithDecode ==
    pc = "publish"
        => \E build \in Builds :
           \E r \in {Decode(ctx, args.bmp_file, 0,
                             IF ctx.palette # NULL
                             THEN heap[ctx.palette].data ELSE <<>>, build)} :
              /\ r.ok /\ r.rows = note.rows /\ r.pos = stream.pos
              /\ r.stored = heap[ctx.data_out].data

\* The loop has ended on a short read after one full row of two.
ShortReadAfterOneRow ==
    /\ pc = "free_context"
    /\ note.at = "short_read"
    /\ ctx.lines = 2 /\ note.rows = 1 /\ probe.reads = 2

(***************************************************************************)
(* The pixels of palette images.                                           *)
(***************************************************************************)

\* Byte j of the k-th scan line of the file being loaded.
SourceByte(k, j) ==
    FileByte(args.bmp_file,
             U32Value(args.bmp_file.data_offset) + k * ctx.file_line_len + j)

\* The output row that holds the k-th scan line.
RowOf(k) ==
    IF (args.bmp_file.height < 0) = ("TOP_DOWN" \in args.flags) THEN k
    ELSE ctx.lines - 1 - k

\* Byte c of output pixel i of the k-th scan line.
OutputByte(k, i, c) ==
    heap[ctx.data_out].data[
        RowOf(k) * ctx.out_line_len + i * ctx.out_channel_count + c]

\* Byte c (blue, green, red, unused) of palette entry e in the file.
FilePaletteByte(e, c) ==
    FileByte(args.bmp_file,
             PaletteOffset(args.bmp_file) + BMP_COLOR_SIZE * e + c)

\* The palette entry that pixel i of the k-th scan line selects.
Selected(k, i) ==
    CASE ctx.info.bits = 1 ->
             (SourceByte(k, i \div 8) \div Pow2(7 - (i % 8))) % 2
      [] ctx.info.bits = 4 ->
             IF i % 2 = 0 THEN SourceByte(k, i \div 2) \div 16
             ELSE SourceByte(k, i \div 2) % 16
      [] ctx.info.bits = 8 -> SourceByte(k, i)

\* C18: for 1-, 4- and 8-bit images output pixel i of a row is the palette
\* entry selected by bit 7 - (i mod 8) of source byte i div 8 (1 bit), by
\* the high nibble of source byte i div 2 for even i and the low nibble for
\* odd i (4 bits), by source byte i (8 bits); the entry, stored in the file
\* as blue, green, red, unused, is emitted as red, green, blue, followed by
\* 255 when 4 channels are selected.
PaletteLookups ==
    (pc = "publish" /\ ctx.info.bits \in {1, 4, 8})
        => \A k \in 0..(ctx.lines - 1), i \in 0..(ctx.info.width - 1) :
              /\ OutputByte(k, i, 0) = FilePaletteByte(Selected(k, i), 2)
              /\ OutputByte(k, i, 1) = FilePaletteByte(Selected(k, i), 1)
              /\ OutputByte(k, i, 2) = FilePaletteByte(Selected(k, i), 0)
              /\ ctx.out_channel_count = 4
                   => OutputByte(k, i, 3) = BMPREAD_DEFAULT_ALPHA

\* A 1-bit image 10 pixels wide has been decoded with an alpha channel:
\* pixels 8 and 9 come from the second byte of the row, and the row selects
\* both palette entries.
DecodedSecondByte ==
    /\ pc = "publish"
    /\ ctx.info.bits = 1 /\ ctx.info.width = 10
    /\ ctx.out_channel_count = 4
    /\ \E i \in 0..9, j \in 0..9 : Selected(0, i) = 0 /\ Selected(0, j) = 1
    /\ Selected(0, 9) = (SourceByte(0, 1) \div 64) % 2

(***************************************************************************)
(* Decode24 on its own.                                                    *)
(***************************************************************************)

\* C19: for 24-bit images output pixel i of a row has red = source byte
\* 3i + 2, green = source byte 3i + 1, blue = source byte 3i, followed by the
\* constant 255 exactly when ALPHA is set, whatever palette and bit fields
\* the context holds.
Decode24Pixels ==
    (probe.fn = "Decode24" /\ probe.done)
        => /\ Len(probe.out)
                = probe.arg[3].info.width
                      * (IF "ALPHA" \in probe.arg[3].flags THEN 4 ELSE 3)
           /\ \A i \in 0..(probe.arg[3].info.width - 1) :
                IF "ALPHA" \in probe.arg[3].flags
                THEN /\ probe.out[4 * i + 1] = probe.arg[1][3 * i + 2]
                     /\ probe.out[4 * i + 2] = probe.arg[1][3 * i + 1]
                     /\ probe.out[4 * i + 3] = probe.arg[1][3 * i]
                     /\ probe.out[4 * i + 4] = 255
                ELSE /\ probe.out[3 * i + 1] = probe.arg[1][3 * i + 2]
                     /\ probe.out[3 * i + 2] = probe.arg[1][3 * i + 1]
                     /\ probe.out[3 * i + 3] = probe.arg[1][3 * i]

\* Decode24 has decoded a row of three pixels with an alpha channel in a
\* context that holds a palette and bit fields.
Decoded24WithState ==
    /\ probe.fn = "Decode24" /\ probe.done
    /\ probe.arg[3].info.width = 3
    /\ "ALPHA" \in probe.arg[3].flags
    /\ probe.arg[2] # <<>>
    /\ probe.arg[3].bit_fields[1].bit_count = 8
    /\ Len(probe.out) = 12
    /\ probe.out[12] = 255

(***************************************************************************)
(* The alpha channel of BITFIELDS images.                                  *)
(***************************************************************************)

\* The word the decoder loads for pixel i of the k-th scan line.
PixelWord(k, i, build) ==
    LoadUint32(ScanLine(k), i * (ctx.info.bits \div 8), build)

\* The bits of `word` under `mask`, as a number.
Masked(word, mask) == U32Value(ShiftRight(word \cap mask, LowestBit(mask)))

\* The product of v and 255 / (2^count - 1) as a uint8_t: the quotient, or
\* one less where the multiplier is not a float and the product is whole.
Extracted(v, count, low) ==
    IF (255 * v) % (Pow2(count) - 1) = 0 /\ 255 % (Pow2(count) - 1) # 0
         /\ v > 0 /\ low
    THEN (255 * v) \div (Pow2(count) - 1) - 1
    ELSE (255 * v) \div (Pow2(count) - 1)

\* C20: in a 16- or 32-bit BITFIELDS image loaded with ALPHA each pixel's
\* alpha byte is extracted through the 4th bit field when that mask is not
\* zero and is 255 otherwise; the 4th mask is read from the file only when
\* the declared info size exceeds 40, so for a 40-byte info block the alpha
\* mask is zero and every output pixel's alpha is 255.
AlphaThroughFourthField ==
    (pc = "publish" /\ ctx.info.compression = COMPRESSION_BITFIELDS)
        => /\ ctx.info.masks[4]
                = (IF U32Value(args.bmp_file.info_size) > 40
                   THEN args.bmp_file.masks[4] ELSE {})
           /\ "ALPHA" \in args.flags
                => \A k \in 0..(ctx.lines - 1), i \in 0..(ctx.info.width - 1) :
                      IF ctx.info.masks[4] # {}
                      THEN \E build \in Builds :
                              OutputByte(k, i, 3)
                                  = Extracted(
                                        Masked(PixelWord(k, i, build),
                                               ctx.info.masks[4]),
                                        Cardinality(ctx.info.masks[4]),
                                        build.low)
                      ELSE OutputByte(k, i, 3) = 255

\* An image whose file holds a fourth mask word after a 40-byte info block
\* has been decoded with ALPHA: the word was not read.
DecodedUnreadAlphaMask ==
    /\ pc = "publish"
    /\ "ALPHA" \in args.flags
    /\ args.bmp_file.info_size = BitsOfNat(BMP3_INFO_SIZE)
    /\ args.bmp_file.masks[4] = Bits(24, 31)
    /\ ctx.info.masks[4] = {}
    /\ OutputByte(0, 0, 3) = 255

\* An alpha byte other than 255 has come through a 4-bit alpha mask.
DecodedAlphaMask ==
    /\ pc = "publish"
    /\ "ALPHA" \in args.flags
    /\ ctx.info.masks[4] = Bits(12, 15)
    /\ OutputByte(0, 0, 3) \notin {0, 255}

(***************************************************************************)
(* What the decoders read from the scratch buffer.                         *)
(***************************************************************************)

\* What the decoder is said to read of the k-th scan line, and nothing else.
ReadPart(k, build) ==
    [j \in probe.loaded |-> RowByte(ScanLine(k), j, build)]

\* The decoders read no byte outside DecoderReads: a scan line decodes to
\* the same bytes with every other byte of it replaced.
DecoderReadsAreAll ==
    (pc = "publish" /\ probe.fn = "Decode")
        => \A k \in 0..(ctx.lines - 1), build \in Builds :
              RunDecoder(ctx.info.width * ctx.out_channel_count, ScanLine(k),
                         IF ctx.palette # NULL THEN heap[ctx.palette].data
                         ELSE <<>>, ctx, build)
                  = RunDecoder(ctx.info.width * ctx.out_channel_count,
                               ReadPart(k, build),
                               IF ctx.palette # NULL
                               THEN heap[ctx.palette].data ELSE <<>>,
                               ctx, [build EXCEPT !.beyond = 255 - @])

\* C21: during any decode, for all six bit depths and every accepted width,
\* every byte a scan-line decoder reads from the scratch buffer lies at an
\* offset below file_line_len, the size the buffer was allocated with, the
\* 4-byte unit read for the last 16-bit pixel of a row included.
DecoderReadsInsideBuffer ==
    (pc \in {"decode_loop", "publish"} /\ probe.fn = "Decode")
        => /\ heap[ctx.file_data].size = ctx.file_line_len
           /\ \A o \in probe.loaded : o < ctx.file_line_len

\* The same but for the 16-bit images of an even width: what the decoders
\* do keep to.
DecoderReadsInsideBufferUnless16 ==
    (ctx.info.bits = 16 /\ ctx.info.width % 2 = 0)
        \/ DecoderReadsInsideBuffer

\* Decode16 has read offsets 4 and 5 of a scratch buffer of 4 bytes for the
\* second pixel of a row of two.
Decode16ReadsPastBuffer ==
    /\ pc = "decode_loop" /\ probe.fn = "Decode"
    /\ ctx.info.bits = 16 /\ ctx.info.width = 2
    /\ ctx.file_line_len = 4
    /\ {4, 5} \subseteq probe.loaded

(***************************************************************************)
(* What a load writes to the output buffer.                                *)
(***************************************************************************)

\* The offsets of the pixel bytes of the output buffer: the first
\* width * channel count bytes of each of the `lines` rows.
PixelBytes ==
    {row * ctx.out_line_len + j :
        row \in 0..(ctx.lines - 1),
        j \in 0..(ctx.info.width * ctx.out_channel_count - 1)}

\* C22: each scan-line decode writes exactly the first width * channel
\* count bytes of its output row and nothing else: every write lies inside
\* the output buffer of lines * out_line_len bytes, in the order of the file
\* and in the reverse order, and the out_line_len - width * channel count
\* padding bytes of each row are never written by the load.
WritesPixelBytesOnly ==
    (pc \in {"decode", "publish", "free_context"} /\ ctx.data_out # NULL)
        => /\ heap[ctx.data_out].size = ctx.lines * ctx.out_line_len
           /\ (DOMAIN heap[ctx.data_out].data) \subseteq PixelBytes
           /\ PixelBytes \subseteq 0..(heap[ctx.data_out].size - 1)
           /\ pc = "publish" => DOMAIN heap[ctx.data_out].data = PixelBytes
           /\ (pc = "free_context" /\ success)
                => DOMAIN heap[ctx.data_out].data = PixelBytes

\* Two rows of two 3-byte pixels have been decoded in the reverse order
\* into rows of 8 bytes: 12 bytes written, offsets 6, 7, 14 and 15 not.
DecodedWithPadding ==
    /\ pc = "publish"
    /\ ctx.info.width = 2 /\ ctx.lines = 2
    /\ ctx.out_channel_count = 3 /\ ctx.out_line_len = 8
    /\ (ctx.info.height < 0) # ("TOP_DOWN" \in ctx.flags)
    /\ Cardinality(DOMAIN heap[ctx.data_out].data) = 12
    /\ (DOMAIN heap[ctx.data_out].data) \cap {6, 7, 14, 15} = {}

(***************************************************************************)
(* The pixels of 16-bit images.                                            *)
(***************************************************************************)

\* The two source bytes of pixel i of the k-th scan line as a 16-bit word,
\* the first byte the low one.
OwnWord(k, i) ==
    BitsOfNat(SourceByte(k, 2 * i) + 256 * SourceByte(k, 2 * i + 1))

\* C23: for an accepted 16-bit BITFIELDS image the decoded R, G, B (and A)
\* bytes of pixel i are a function only of the masks and the two source
\* bytes of pixel i, not of the bytes of the following pixel or of the row
\* padding: every accepted channel mask of a 16-bit image lies within the
\* low 16 bits.
Pixel16FromOwnBytes ==
    (pc = "publish" /\ ctx.info.bits = 16)
        => /\ \A c \in 1..4 : ctx.info.masks[c] \subseteq 0..15
           /\ \A k \in 0..(ctx.lines - 1), i \in 0..(ctx.info.width - 1) :
                \E build \in Builds :
                   \A c \in 1..ctx.out_channel_count :
                      OutputByte(k, i, c - 1)
                          = BitFieldPixel(OwnWord(k, i), ctx, build)[c]

\* A 16-bit image whose red, green and alpha masks lie in bits 16..31 has
\* been accepted and decoded.
Decoded16WithHighMasks ==
    /\ pc = "publish" /\ ctx.info.bits = 16
    /\ ctx.info.masks[1] = Bits(20, 24)
    /\ \A c \in {1, 2, 4} : ctx.info.masks[c] \cap (0..15) = {}

(***************************************************************************)
(* The descriptor after a failed call.                                     *)
(***************************************************************************)

\* A call that was given the caller's descriptor is about to return failure.
FailedOnDescriptor ==
    pc = "return" /\ ~success /\ args.p_bmp_out = "bmp"

\* C24: after every bmpread call that returns failure, whatever the
\* descriptor held before the call, the caller's descriptor is empty (data
\* null, width and height 0), so that a following bmpread_free on it frees
\* nothing; this holds for every cause of failure, a null file name with a
\* non-null descriptor included.
FailureEmptiesDescriptor ==
    FailedOnDescriptor
        => bmp.data = NULL /\ bmp.width = 0 /\ bmp.height = 0

\* The same for every failure but that of a null file name.
FailureEmptiesDescriptorUnlessNullName ==
    (FailedOnDescriptor /\ args.bmp_file.name # "NULL") => bmp = ZeroBmp

\* A call with a null file name has failed and the descriptor still holds
\* the image of the call before it.
NullNameKeepsDescriptor ==
    /\ FailedOnDescriptor
    /\ args.bmp_file.name = "NULL"
    /\ note.at = "null_file"
    /\ bmp.data # NULL /\ bmp.width = 2
    /\ heap[bmp.data].kind = "data_out" /\ heap[bmp.data].frees = 0

(***************************************************************************)
(* The fields the parser reads and never uses: the header's file size and  *)
(* reserved word (218-219), the info block's planes (280) and its five     *)
(* reserved words (283-287).                                               *)
(***************************************************************************)

\* 0, 0xFFFFFFFF and 0x04030201.
UnusedWords == {{}, ToUint32(-1), BitsOfNat(67305985)}

UnusedPlanes == {0, 1, 65535}

\* The files that differ from f in one of the unused fields, or in all.
Twins(f) ==
    {f}
    \cup {[f EXCEPT !.file_size = w] : w \in UnusedWords}
    \cup {[f EXCEPT !.reserved = w] : w \in UnusedWords}
    \cup {[f EXCEPT !.planes = n] : n \in UnusedPlanes}
    \cup {[f EXCEPT !.unused = w] : w \in UnusedWords}
    \cup {[f EXCEPT !.file_size = w, !.reserved = w, !.planes = 0,
                    !.unused = w] : w \in UnusedWords}

\* Images of three formats, whole and cut short, one of a width that is no
\* power of two, each with several contents of the unused fields.
UnusedFiles ==
    UNION {{f, [f EXCEPT !.len = f.len - 1], [f EXCEPT !.len = 27],
            [f EXCEPT !.len = 40]} :
        f \in {FormatFile(2, 2, fmt) :
                  fmt \in {x \in Formats : x.bits \in {8, 16, 24}}}
              \cup {FormatFile(3, -1, CHOOSE x \in Formats : x.bits = 24)}}

UnusedInputs ==
    {Input([f EXCEPT !.file_size = w, !.reserved = w, !.planes = n,
                     !.unused = w], flags) :
        f \in UnusedFiles, w \in UnusedWords, n \in {0, 1},
        flags \in {{}, {"ANY_SIZE", "TOP_DOWN"}}}

LoadUnused ==
    /\ calls < 1
    /\ \E in \in UnusedInputs : BmpreadEnter(in.file, in.flags, in.out)

NextUnused ==
    \/ LoadUnused
    \/ ValidateStep
    \/ DecodeStep
    \/ Publish
    \/ FreeContextStep
    \/ Return
    \/ Release

SpecUnused == Init /\ [][NextUnused]_vars

\* What the caller sees of a call: the result, the step that made it fail,
\* and on success the width, the height and the bytes of the pixel block.
Failure(at) ==
    [ok |-> FALSE, at |-> at, width |-> 0, height |-> 0, data |-> <<>>]

\* 938, 951-956: the outcome of Decode's result d after Validate's result v.
OutcomeOfDecode(v, d) ==
    IF ~d.ok THEN Failure(d.at)
    ELSE [ok |-> TRUE, at |-> d.at, width |-> v.ctx.info.width,
          height |-> v.ctx.lines, data |-> d.stored]

\* 937-938: the outcome after Validate's result v.
OutcomeOfValidate(v, f, build) ==
    IF ~v.ok THEN Failure(v.at)
    ELSE CHOOSE o \in
            {OutcomeOfDecode(v, d) :
                d \in {Decode(v.ctx, f, v.pos,
                              IF v.ctx.palette # NULL THEN v.palette
                              ELSE <<>>, build)}} : TRUE

\* 921-962: the outcome of bmpread on the file f with a non-null descriptor.
Outcome(f, flags, mallocs, build) ==
    CHOOSE o \in
        {OutcomeOfValidate(v, f, build) :
            v \in {Validate([ZeroContext EXCEPT !.flags = flags,
                                                !.fp = STREAM],
                            f, 0, mallocs, 0)}} : TRUE

\* The outcome of the call that is about to return.
Observed ==
    IF success
    THEN [ok |-> TRUE, at |-> note.at, width |-> bmp.width,
          height |-> bmp.height, data |-> heap[bmp.data].data]
    ELSE Failure(note.at)

\* C25: the outcome of a load does not depend on the header's file size and
\* reserved word, on the info block's planes field or on its five reserved
\* words: every file that differs from the loaded one only in these gives,
\* under the same flags, the same success or failure and on success the same
\* width, height and decoded pixel bytes.
UnusedFieldsIgnored ==
    Returning
        => \A t \in Twins(args.bmp_file) :
              \E mallocs \in MallocOutcomes, build \in Builds :
                 Outcome(t, args.flags, mallocs, build) = Observed

\* A 16-bit image with planes = 0 and all reserved words 0xFFFFFFFF has been
\* loaded.
LoadedWithUnusedFieldsSet ==
    /\ Returning /\ success
    /\ args.bmp_file.planes = 0
    /\ args.bmp_file.file_size = ToUint32(-1)
    /\ args.bmp_file.unused = ToUint32(-1)
    /\ ctx.info.planes = 0
    /\ ctx.header.file_size = ToUint32(-1)
    /\ ctx.info.bits = 16
    /\ bmp.width = 2 /\ bmp.height = 2

=============================================================================
